---- MODULE Spec2Model ----
(***************************************************************************)
(* Model of the strain-bot record store (enhanced_sheets.py) and of the    *)
(* command flows of main.py that drive it.                                 *)
(*                                                                         *)
(* Text is worked on as sequences of one-character strings, so that        *)
(* lower(), upper(), strip(), the normalisation and the user-id encoding   *)
(* are computed character by character as the code does.  A cell or an     *)
(* argument is held as a string; Chars spells it out where the code looks  *)
(* into it and Text names the string a computation produced.               *)
(* Average_Rating is kept in hundredths (a cell 7.33 is the integer 733).  *)
(*                                                                         *)
(* Two specifications share the variables:                                 *)
(*   SpecLock  takes safe_operation apart into lock acquisition, the       *)
(*             operation body's read and writes, and the release;          *)
(*   Spec      runs the command flows with every safe_operation call as    *)
(*             one step of the handler the lock admits next.               *)
(***************************************************************************)
EXTENDS Integers, Sequences, FiniteSets, TLC

\* ------------------------------------------------------------------ bounds
NTasks == 2          \* concurrently running command handlers
MaxOps == 3          \* command handlers (SpecLock: store calls) started
MaxUsers == 2        \* distinct raters
NCallers == 3        \* SpecLock: concurrent callers of safe_operation

Tasks == 1..NTasks
LockTasks == 1..NCallers
USERS == 1..MaxUsers
\* who submits is recorded in the Submissions sheet only
SUBMITTERS == {1}

\* ------------------------------------------------------------- characters
Digits == {"0", "1", "2", "3", "4", "5", "6", "7", "8", "9"}
UpperAlpha == <<"A", "B", "C", "D", "E", "F", "G", "H", "I", "J", "K", "L", "M",
                "N", "O", "P", "Q", "R", "S", "T", "U", "V", "W", "X", "Y", "Z">>
LowerAlpha == <<"a", "b", "c", "d", "e", "f", "g", "h", "i", "j", "k", "l", "m",
                "n", "o", "p", "q", "r", "s", "t", "u", "v", "w", "x", "y", "z">>
UpperLetters == {UpperAlpha[i] : i \in DOMAIN UpperAlpha}
LowerLetters == {LowerAlpha[i] : i \in DOMAIN LowerAlpha}

\* str.lower() on one character
LowerChar(c) ==
  IF c \in UpperLetters
  THEN LowerAlpha[CHOOSE i \in DOMAIN UpperAlpha : UpperAlpha[i] = c]
  ELSE c

\* str.upper() on one character
UpperChar(c) ==
  IF c \in LowerLetters
  THEN UpperAlpha[CHOOSE i \in DOMAIN LowerAlpha : LowerAlpha[i] = c]
  ELSE c

Lower(s) == [i \in DOMAIN s |-> LowerChar(s[i])]
Upper(s) == [i \in DOMAIN s |-> UpperChar(s[i])]

IsAlnum(c) == c \in Digits \cup UpperLetters \cup LowerLetters

\* re.sub(r'[^a-zA-Z0-9]', '', name.lower())
normalize_strain_name(name) == SelectSeq(Lower(name), IsAlnum)

\* s in t (Python substring test)
Contains(t, s) ==
  \E i \in 0..(Len(t) - Len(s)) : SubSeq(t, i + 1, i + Len(s)) = s

DigitVal(c) ==
  CASE c = "0" -> 0 [] c = "1" -> 1 [] c = "2" -> 2 [] c = "3" -> 3
    [] c = "4" -> 4 [] c = "5" -> 5 [] c = "6" -> 6 [] c = "7" -> 7
    [] c = "8" -> 8 [] c = "9" -> 9

DigitChar(d) ==
  CASE d = 0 -> "0" [] d = 1 -> "1" [] d = 2 -> "2" [] d = 3 -> "3"
    [] d = 4 -> "4" [] d = 5 -> "5" [] d = 6 -> "6" [] d = 7 -> "7"
    [] d = 8 -> "8" [] d = 9 -> "9"

\* str(n) for an integer
RECURSIVE DecStr(_)
DecStr(n) == IF n < 0 THEN <<"-">> \o DecStr(-n)
             ELSE IF n < 10 THEN <<DigitChar(n)>>
             ELSE Append(DecStr(n \div 10), DigitChar(n % 10))

\* f"'{user_id}"
format_user_id_for_sheets(user_id) == <<"'">> \o DecStr(user_id)

\* ------------------------------------------------------------------ dates
RECURSIVE NumVal(_)
NumVal(s) == IF s = <<>> THEN 0
             ELSE 10 * NumVal(SubSeq(s, 1, Len(s) - 1)) + DigitVal(s[Len(s)])

AllDigits(s) == \A i \in DOMAIN s : s[i] \in Digits

IsLeap(y) == (y % 4 = 0 /\ y % 100 # 0) \/ y % 400 = 0

DaysInMonth(m, y) ==
  IF m = 2 THEN (IF IsLeap(y) THEN 29 ELSE 28)
  ELSE IF m \in {4, 6, 9, 11} THEN 30 ELSE 31

\* a date check that looks at the digits and dashes only
validate_date_format_only(s) ==
  \E i, j \in DOMAIN s :
    /\ i < j
    /\ s[i] = "-" /\ s[j] = "-"
    /\ AllDigits(SubSeq(s, 1, i - 1)) /\ AllDigits(SubSeq(s, i + 1, j - 1))
    /\ AllDigits(SubSeq(s, j + 1, Len(s)))

\* datetime.strptime(date_str, '%d-%m-%Y') succeeds: one or two digits of
\* day, one or two digits of month, four digits of year, a real calendar day
validate_date_dd_mm_yyyy(s) ==
  \E i, j \in DOMAIN s :
    /\ i < j
    /\ s[i] = "-" /\ s[j] = "-"
    /\ LET d == SubSeq(s, 1, i - 1)
           m == SubSeq(s, i + 1, j - 1)
           y == SubSeq(s, j + 1, Len(s))
       IN /\ Len(d) \in {1, 2} /\ AllDigits(d)
          /\ Len(m) \in {1, 2} /\ AllDigits(m)
          /\ Len(y) = 4 /\ AllDigits(y)
          /\ NumVal(y) >= 1
          /\ NumVal(m) \in 1..12
          /\ NumVal(d) \in 1..DaysInMonth(NumVal(m), NumVal(y))

\* round(sum / n, 2) in hundredths: the quotient rounded to the nearest
\* hundredth.  A quotient half-way between two hundredths needs n to be a
\* multiple of 8, more ratings than one item gets here; Python's round
\* then goes by the binary value of the float, to the even hundredth when
\* that value is exact.
round2(sum, n) ==
  LET q == (100 * sum) \div n
      r == (100 * sum) % n
  IN IF 2 * r < n THEN q
     ELSE IF 2 * r > n THEN q + 1
     ELSE IF q % 2 = 0 THEN q ELSE q + 1

\* str.strip() (the model's only whitespace character is the space)
RECURSIVE LStrip(_)
LStrip(s) == IF s # <<>> /\ s[1] = " " THEN LStrip(Tail(s)) ELSE s

RECURSIVE RStrip(_)
RStrip(s) == IF s # <<>> /\ s[Len(s)] = " "
             THEN RStrip(SubSeq(s, 1, Len(s) - 1)) ELSE s

Strip(s) == LStrip(RStrip(s))

\* ---------------------------------------------------------- regex search
\* re.compile(identifier.replace('*', '.*').replace('?', '.'), IGNORECASE)
\* matched with regex.search: "*" is any run of characters, "?" and "." are
\* any one character, every other character of the model's alphabet is a
\* literal compared without case; the match may start and end anywhere.
RECURSIVE MatchHere(_, _)
MatchHere(pat, s) ==
  IF pat = <<>> THEN TRUE
  ELSE IF pat[1] = "*"
       THEN \E k \in 0..Len(s) : MatchHere(Tail(pat), SubSeq(s, k + 1, Len(s)))
       ELSE /\ s # <<>>
            /\ (pat[1] \in {"?", "."} \/ LowerChar(pat[1]) = LowerChar(s[1]))
            /\ MatchHere(Tail(pat), Tail(s))

RegexSearch(pat, s) ==
  \E k \in 0..Len(s) : MatchHere(pat, SubSeq(s, k + 1, Len(s)))

HasWildcard(s) == \E i \in DOMAIN s : s[i] \in {"*", "?"}

\* ------------------------------------------------------------- data values
valid_categories == {"flower", "hash", "rosin"}
NoCategory == ""          \* category=None

ID_A == "A1B2C3D4"
ID_E == "0000000E"
\* values secrets.token_hex(4).upper() can return
IDS == {ID_A, ID_E}

N_Og   == "Og"
N_O_G  == "O-G"
\* validate_strain_name results the submit flow passes on; the two have one
\* normalized form
NAMES == {N_Og, N_O_G}
\* new names /rename_strain is given
NEW_NAMES == {N_O_G}

\* identifiers typed into /rate_strain and /approve_strain: a name and an id
IDENTS == {"og", "a1b2c3d4"}

D_Harvest == "01-12-2024"
D_Package == "15-12-2024"
HARVESTS == {D_Harvest}
PACKAGES == {D_Package}
CATEGORIES == {"flower"}
\* the optional category argument of /rate_strain
RATE_CATEGORIES == {NoCategory}
P_Fyta == "Fyta"
PRODUCERS == {P_Fyta}
\* names given to /add_producer and /remove_producer
PRODUCER_ARGS == {P_Fyta}
RATING_VALUES == {3}

\* header cell of the Producers sheet
ProducersHeader == "Producer_Name"

\* the fallback list of get_all_producers
default_producers ==
  {"Hollandse Hoogtes", "Q-Farms", "Fyta", "Aardachtig", "Canadelaar", "Holigram"}

\* the strings whose characters the code looks at
Texts == {"", "A1B2C3D4", "a1b2c3d4", "0000000E", "Og", "og", "O-G",
          "01-12-2024", "15-12-2024", "Fyta", "Unknown", "Producer_Name",
          "flower", "hash", "rosin", "all", "Hash", "edible",
          "1-2-2024", "31-02-2024", "2024-12-01",
          "Blue Dream", "Blueberry", "blueberry", "Sour Diesel", "Blues",
          "Blue*", "Blue?", "fyta", " Fyta ", "Q-Farms", "Flower",
          "0000000B", "0000000C", "0000000D", "0000000F"}

\* the characters of a string
Chars(s) ==
  CASE s = "" -> <<>>
    [] s = "A1B2C3D4" -> <<"A", "1", "B", "2", "C", "3", "D", "4">>
    [] s = "a1b2c3d4" -> <<"a", "1", "b", "2", "c", "3", "d", "4">>
    [] s = "0000000E" -> <<"0", "0", "0", "0", "0", "0", "0", "E">>
    [] s = "Og" -> <<"O", "g">>
    [] s = "og" -> <<"o", "g">>
    [] s = "O-G" -> <<"O", "-", "G">>
    [] s = "01-12-2024" -> <<"0", "1", "-", "1", "2", "-", "2", "0", "2", "4">>
    [] s = "15-12-2024" -> <<"1", "5", "-", "1", "2", "-", "2", "0", "2", "4">>
    [] s = "Fyta" -> <<"F", "y", "t", "a">>
    [] s = "Unknown" -> <<"U", "n", "k", "n", "o", "w", "n">>
    [] s = "flower" -> <<"f", "l", "o", "w", "e", "r">>
    [] s = "hash" -> <<"h", "a", "s", "h">>
    [] s = "rosin" -> <<"r", "o", "s", "i", "n">>
    [] s = "all" -> <<"a", "l", "l">>
    [] s = "Hash" -> <<"H", "a", "s", "h">>
    [] s = "edible" -> <<"e", "d", "i", "b", "l", "e">>
    [] s = "1-2-2024" -> <<"1", "-", "2", "-", "2", "0", "2", "4">>
    [] s = "31-02-2024" -> <<"3", "1", "-", "0", "2", "-", "2", "0", "2", "4">>
    [] s = "2024-12-01" -> <<"2", "0", "2", "4", "-", "1", "2", "-", "0", "1">>
    [] s = "Blue Dream" -> <<"B", "l", "u", "e", " ", "D", "r", "e", "a", "m">>
    [] s = "Blueberry" -> <<"B", "l", "u", "e", "b", "e", "r", "r", "y">>
    [] s = "blueberry" -> <<"b", "l", "u", "e", "b", "e", "r", "r", "y">>
    [] s = "Sour Diesel" -> <<"S", "o", "u", "r", " ", "D", "i", "e", "s", "e", "l">>
    [] s = "Blues" -> <<"B", "l", "u", "e", "s">>
    [] s = "Blue*" -> <<"B", "l", "u", "e", "*">>
    [] s = "Blue?" -> <<"B", "l", "u", "e", "?">>
    [] s = "fyta" -> <<"f", "y", "t", "a">>
    [] s = " Fyta " -> <<" ", "F", "y", "t", "a", " ">>
    [] s = "Q-Farms" -> <<"Q", "-", "F", "a", "r", "m", "s">>
    [] s = "0000000B" -> <<"0", "0", "0", "0", "0", "0", "0", "B">>
    [] s = "0000000C" -> <<"0", "0", "0", "0", "0", "0", "0", "C">>
    [] s = "0000000D" -> <<"0", "0", "0", "0", "0", "0", "0", "D">>
    [] s = "0000000F" -> <<"0", "0", "0", "0", "0", "0", "0", "F">>
    [] s = "Flower" -> <<"F", "l", "o", "w", "e", "r">>
    [] s = "Producer_Name" ->
         <<"P", "r", "o", "d", "u", "c", "e", "r", "_", "N", "a", "m", "e">>

\* the string with the given characters
Text(cs) == CHOOSE s \in Texts : Chars(s) = cs

ProducerMaxLen == 50

\* _sanitize_producer
sanitize_producer(producer) ==
  IF producer = "" THEN "Unknown"
  ELSE LET stripped == Strip(Chars(producer))
       IN Text(SubSeq(stripped, 1,
                      IF Len(stripped) < ProducerMaxLen
                      THEN Len(stripped) ELSE ProducerMaxLen))

\* results of store calls
None == [tag |-> "None"]
Bool(b) == [tag |-> "bool", v |-> b]
Str(s) == [tag |-> "str", v |-> s]
Rec(r) == [tag |-> "rec", v |-> r]
List(l) == [tag |-> "list", v |-> l]

\* Python truthiness of a result
Truthy(r) ==
  CASE r.tag = "None" -> FALSE
    [] r.tag = "bool" -> r.v
    [] r.tag = "str" -> r.v # ""
    [] r.tag = "list" -> r.v # {}
    [] OTHER -> TRUE

\* the most cell or row writes one operation makes (_add_rating_operation:
\* append_row, update_cell, update_cell)
MaxWrites == 3
\* A backing-store failure: the store raises on the operation's first call
\* (0), on the call that follows its k-th completed write (k), or not at all
\* (NoFail).
NoFail == MaxWrites
\* the failure points that differ for an operation making n writes
FailPoints(n) == 0..(n - 1) \cup {NoFail}

\* smallest index of seq whose element satisfies P, 0 when there is none
FirstIdx(seq, P(_)) ==
  LET hits == {i \in DOMAIN seq : P(seq[i])}
  IN IF hits = {} THEN 0 ELSE CHOOSE i \in hits : \A j \in hits : i <= j

\* `if category: records = [r for r in records
\*                          if str(r.get('Category', 'flower')).lower() == category.lower()]`
InCategory(r, category) ==
  category = NoCategory \/ Lower(Chars(r.category)) = Lower(Chars(category))

\* ------------------------------------------------------- store operations
\* Each operation body is a function of the sheets it reads, its arguments
\* and the point at which the backing store fails; it yields the sheets it
\* leaves behind, the value the store method returns (None where the body
\* raised and safe_operation caught it) and whether an exception was
\* raised and logged.

\* a duplicate check that compares the producer also when none is given
check_strain_duplicate_producer_required(rows, strain_name, harvest_date, package_date, category, producer, fail) ==
  IF fail = 0 THEN [res |-> None, err |-> TRUE]
  ELSE LET normalized_input == normalize_strain_name(Chars(strain_name))
           Dup(r) == /\ normalize_strain_name(Chars(r.name)) = normalized_input
                     /\ r.harvest = harvest_date
                     /\ r.package = package_date
                     /\ Lower(Chars(r.category)) = Lower(Chars(category))
                     /\ r.producer = producer
           i == FirstIdx(rows, Dup)
       IN [res |-> IF i = 0 THEN None ELSE Str(rows[i].id), err |-> FALSE]

\* check_strain_duplicate.operation
check_strain_duplicate(rows, strain_name, harvest_date, package_date, category, producer, fail) ==
  IF fail = 0 THEN [res |-> None, err |-> TRUE]
  ELSE LET normalized_input == normalize_strain_name(Chars(strain_name))
           Dup(r) == /\ normalize_strain_name(Chars(r.name)) = normalized_input
                     /\ r.harvest = harvest_date
                     /\ r.package = package_date
                     /\ Lower(Chars(r.category)) = Lower(Chars(category))
                     /\ (producer = "" \/ r.producer = producer)
           i == FirstIdx(rows, Dup)
       IN [res |-> IF i = 0 THEN None ELSE Str(rows[i].id), err |-> FALSE]

\* a lookup that tries the names before the ids
get_strain_idx_name_first(rows, identifier, category) ==
  LET ident == Chars(identifier)
      ById(r)   == InCategory(r, category) /\ Upper(Chars(r.id)) = Upper(ident)
      ByName(r) == InCategory(r, category) /\ Lower(Chars(r.name)) = Lower(ident)
      BySub(r)  == InCategory(r, category) /\ Contains(Lower(Chars(r.name)), Lower(ident))
  IN IF FirstIdx(rows, ByName) # 0 THEN FirstIdx(rows, ByName)
     ELSE IF FirstIdx(rows, ById) # 0 THEN FirstIdx(rows, ById)
     ELSE FirstIdx(rows, BySub)

\* get_strain_by_identifier.operation: the index of the row it returns
\* (0: None)
get_strain_idx(rows, identifier, category) ==
  LET ident == Chars(identifier)
      ById(r)   == InCategory(r, category) /\ Upper(Chars(r.id)) = Upper(ident)
      ByName(r) == InCategory(r, category) /\ Lower(Chars(r.name)) = Lower(ident)
      ByRegex(r) == InCategory(r, category) /\ RegexSearch(ident, Chars(r.name))
      BySub(r)  == InCategory(r, category) /\ Contains(Lower(Chars(r.name)), Lower(ident))
      by_id == FirstIdx(rows, ById)
      by_name == FirstIdx(rows, ByName)
  IN IF by_id # 0 THEN by_id
     ELSE IF by_name # 0 THEN by_name
     ELSE IF HasWildcard(ident) THEN FirstIdx(rows, ByRegex)
     ELSE FirstIdx(rows, BySub)

get_strain_by_identifier(rows, identifier, category, fail) ==
  LET i == get_strain_idx(rows, identifier, category)
  IN IF fail = 0 THEN [res |-> None, err |-> TRUE]
     ELSE [res |-> IF i = 0 THEN None ELSE Rec(rows[i]), err |-> FALSE]

\* the Status cell add_strain_submission writes
NewItemStatus_approved == "Approved"

NewItemStatus == "Pending"

\* add_strain_submission.operation; unique_id is what _generate_unique_id
\* returned
add_strain_submission(rows, subs, strain_name, harvest_date, package_date, category, producer, user_id, unique_id, fail) ==
  IF \/ ~validate_date_dd_mm_yyyy(Chars(harvest_date))
     \/ ~validate_date_dd_mm_yyyy(Chars(package_date))
     \/ Text(Lower(Chars(category))) \notin valid_categories
  THEN [strains |-> rows, submissions |-> subs, res |-> None, err |-> FALSE]
  ELSE IF fail = 0
  THEN [strains |-> rows, submissions |-> subs, res |-> None, err |-> TRUE]
  ELSE LET item == [id |-> unique_id, name |-> strain_name, status |-> NewItemStatus,
                    avg |-> 0, total |-> 0, harvest |-> harvest_date,
                    package |-> package_date,
                    category |-> Text(Lower(Chars(category))),
                    producer |-> sanitize_producer(producer)]
           entry == [sid |-> Len(subs) + 1, id |-> unique_id, name |-> strain_name,
                     user |-> format_user_id_for_sheets(user_id),
                     harvest |-> harvest_date, package |-> package_date,
                     category |-> Text(Lower(Chars(category))),
                     producer |-> sanitize_producer(producer)]
       IN IF fail = 1
          THEN [strains |-> Append(rows, item), submissions |-> subs,
                res |-> None, err |-> TRUE]
          ELSE [strains |-> Append(rows, item), submissions |-> Append(subs, entry),
                res |-> Str(unique_id), err |-> FALSE]

\* the row _add_rating_operation resolves the identifier to (0: none)
rating_strain_idx(rows, identifier, category) ==
  LET Hit(r) == /\ InCategory(r, category)
                /\ (Upper(Chars(r.id)) = Upper(Chars(identifier))
                    \/ Lower(Chars(r.name)) = Lower(Chars(identifier)))
  IN FirstIdx(rows, Hit)

\* the (item, user) pair already has a Rating row, in either stored form
already_rated_encoded_only(rats, item_id, user_id) ==
  \E k \in DOMAIN rats :
    /\ rats[k].item = item_id
    /\ rats[k].user = format_user_id_for_sheets(user_id)

already_rated(rats, item_id, user_id) ==
  \E k \in DOMAIN rats :
    /\ rats[k].item = item_id
    /\ (rats[k].user = DecStr(user_id) \/ rats[k].user = format_user_id_for_sheets(user_id))

RECURSIVE SumRatings(_, _)
SumRatings(rats, item_id) ==
  IF rats = <<>> THEN 0
  ELSE (IF rats[1].item = item_id THEN rats[1].value ELSE 0)
       + SumRatings(Tail(rats), item_id)

CountRatings(rats, item_id) ==
  Cardinality({k \in DOMAIN rats : rats[k].item = item_id})

\* an id that is the count of the Ratings rows
next_rating_id_count(rats) == Len(rats)

\* next_rating_id = len(ratings) + 1
next_rating_id(rats) == Len(rats) + 1

\* _add_rating_operation
add_rating_operation(rows, rats, identifier, user_id, rating, category, fail) ==
  LET same == [strains |-> rows, ratings |-> rats, res |-> Bool(FALSE), err |-> FALSE]
      i == rating_strain_idx(rows, identifier, category)
  IN IF fail = 0 THEN [same EXCEPT !.err = TRUE]
     ELSE IF i = 0 THEN same
     ELSE IF rows[i].status # "Approved" THEN same
     ELSE IF already_rated(rats, rows[i].id, user_id) THEN same
     ELSE LET strain_unique_id == rows[i].id
              row == [rid |-> next_rating_id(rats), item |-> strain_unique_id,
                      user |-> format_user_id_for_sheets(user_id), value |-> rating]
              rats2 == Append(rats, row)
              total_ratings == CountRatings(rats, strain_unique_id) + 1
              avg_rating == round2(SumRatings(rats, strain_unique_id) + rating, total_ratings)
              SameId(r) == r.id = strain_unique_id
              j == FirstIdx(rows, SameId)
          IN IF fail = 1
             THEN [strains |-> rows, ratings |-> rats2, res |-> Bool(FALSE),
                   err |-> TRUE]
             ELSE IF fail = 2
             THEN [strains |-> [rows EXCEPT ![j].avg = avg_rating],
                   ratings |-> rats2, res |-> Bool(FALSE), err |-> TRUE]
             ELSE [strains |-> [rows EXCEPT ![j].avg = avg_rating,
                                            ![j].total = total_ratings],
                   ratings |-> rats2, res |-> Bool(TRUE), err |-> FALSE]

\* the row approve_strain.operation flips (0: none)
approve_idx_any_status(rows, identifier) ==
  LET Hit(r) == \/ Upper(Chars(r.id)) = Upper(Chars(identifier))
                \/ Lower(Chars(r.name)) = Lower(Chars(identifier))
  IN FirstIdx(rows, Hit)

approve_idx(rows, identifier) ==
  LET Hit(r) == /\ (Upper(Chars(r.id)) = Upper(Chars(identifier))
                    \/ Lower(Chars(r.name)) = Lower(Chars(identifier)))
                /\ r.status = "Pending"
  IN FirstIdx(rows, Hit)

\* approve_strain.operation
approve_strain(rows, identifier, fail) ==
  LET i == approve_idx(rows, identifier)
  IN IF fail = 0 THEN [strains |-> rows, res |-> None, err |-> TRUE]
     ELSE IF i = 0 THEN [strains |-> rows, res |-> Bool(FALSE), err |-> FALSE]
     ELSE [strains |-> [rows EXCEPT ![i].status = "Approved"], res |-> Bool(TRUE),
           err |-> FALSE]

\* a rename that also takes the row with the name
rename_strain_by_name(rows, unique_id, new_name, fail) ==
  LET Hit(r) == \/ Upper(Chars(r.id)) = Upper(Chars(unique_id))
                \/ Lower(Chars(r.name)) = Lower(Chars(unique_id))
      i == FirstIdx(rows, Hit)
  IN IF fail = 0 THEN [strains |-> rows, res |-> Bool(FALSE), err |-> TRUE]
     ELSE IF i = 0 THEN [strains |-> rows, res |-> Bool(FALSE), err |-> FALSE]
     ELSE [strains |-> [rows EXCEPT ![i].name = new_name], res |-> Bool(TRUE),
           err |-> FALSE]

\* rename_strain.operation
rename_strain(rows, unique_id, new_name, fail) ==
  LET Hit(r) == Upper(Chars(r.id)) = Upper(Chars(unique_id))
      i == FirstIdx(rows, Hit)
  IN IF fail = 0 THEN [strains |-> rows, res |-> Bool(FALSE), err |-> TRUE]
     ELSE IF i = 0 THEN [strains |-> rows, res |-> Bool(FALSE), err |-> FALSE]
     ELSE [strains |-> [rows EXCEPT ![i].name = new_name], res |-> Bool(TRUE),
           err |-> FALSE]

\* an existence check that tells upper case from lower case
add_producer_case_sensitive(rows, producer_name, fail) ==
  LET name == Strip(Chars(producer_name))
      existing_producers == {Strip(Chars(rows[k])) : k \in DOMAIN rows}
  IN IF fail = 0 THEN [producers |-> rows, res |-> Bool(FALSE), err |-> TRUE]
     ELSE IF name \in existing_producers
     THEN [producers |-> rows, res |-> Bool(FALSE), err |-> FALSE]
     ELSE [producers |-> Append(rows, Text(name)), res |-> Bool(TRUE), err |-> FALSE]

\* add_producer.operation
add_producer(rows, producer_name, fail) ==
  LET name == Strip(Chars(producer_name))
      existing_producers == {Lower(Strip(Chars(rows[k]))) : k \in DOMAIN rows}
  IN IF fail = 0 THEN [producers |-> rows, res |-> Bool(FALSE), err |-> TRUE]
     ELSE IF Lower(name) \in existing_producers
     THEN [producers |-> rows, res |-> Bool(FALSE), err |-> FALSE]
     ELSE [producers |-> Append(rows, Text(name)), res |-> Bool(TRUE), err |-> FALSE]

\* a removal that takes the rows of get_all_values for the data rows
remove_producer_no_header(rows, producer_name, fail) ==
  LET producer_lower == Lower(Strip(Chars(producer_name)))
      Hit(cell) == Lower(Strip(Chars(cell))) = producer_lower
      row_to_delete == FirstIdx(rows, Hit)
  IN IF fail = 0 THEN [producers |-> rows, res |-> Bool(FALSE), err |-> TRUE]
     ELSE IF row_to_delete <= 1
     THEN [producers |-> rows, res |-> Bool(FALSE), err |-> FALSE]
     ELSE [producers |-> SubSeq(rows, 1, row_to_delete - 2)
                           \o SubSeq(rows, row_to_delete, Len(rows)),
           res |-> Bool(TRUE), err |-> FALSE]

\* remove_producer.operation: get_all_values gives the header row too
remove_producer(rows, producer_name, fail) ==
  LET records == <<ProducersHeader>> \o rows
      producer_lower == Lower(Strip(Chars(producer_name)))
      Hit(cell) == Lower(Strip(Chars(cell))) = producer_lower
      row_to_delete == FirstIdx(records, Hit)
  IN IF fail = 0 THEN [producers |-> rows, res |-> Bool(FALSE), err |-> TRUE]
     ELSE IF row_to_delete <= 1
     THEN [producers |-> rows, res |-> Bool(FALSE), err |-> FALSE]
     ELSE [producers |-> SubSeq(rows, 1, row_to_delete - 2)
                           \o SubSeq(rows, row_to_delete, Len(rows)),
           res |-> Bool(TRUE), err |-> FALSE]

\* get_all_producers.operation; the sorted list without duplicates is held
\* as the set of its members
get_all_producers(rows, fail) ==
  LET names == {Text(Strip(Chars(rows[k]))) : k \in DOMAIN rows} \ {""}
  IN IF fail = 0 THEN [res |-> List(default_producers), err |-> TRUE]
     ELSE [res |-> IF names = {} THEN List(default_producers) ELSE List(names),
           err |-> FALSE]

\* ------------------------------------------------------------------ state
VARIABLES
  strains,      \* data rows of the Strains sheet, in sheet order
  ratings,      \* data rows of the Ratings sheet
  submissions,  \* data rows of the Submissions sheet
  producers,    \* Producer_Name cells of the Producers sheet's data rows
  valid_producers,  \* bot.valid_producers
  cache,        \* OptimizedSheetsManager.cache: key, value and timestamp of each entry
  waiters,      \* handlers suspended in self._lock.acquire(), in arrival order
  lockHolder,   \* handler that took self._lock last (0: the lock is free)
  pc,           \* where each handler is in safe_operation
  snap,         \* the sheets as each running operation body read them
  flow,         \* the command each handler runs, with its arguments
  call,         \* the store method the handler is calling
  loc,          \* the handler's strain_data, or the result of its store call
  last,         \* what the step just taken put out: the reply a handler sent
                \* (kind "none": none) and whether a store error was logged
  nOps,         \* handlers started so far
  now,          \* time.time(), in tenths of a second since the bot started
  requests,     \* RateLimiter.requests: the times wait_if_needed recorded
  admitted,     \* the times at which wait_if_needed returned, in order
  config,       \* Config.RATE_LIMIT_PER_USER and Config.RATE_LIMIT_WINDOW
  user_requests,  \* AdvancedRateLimiter.user_requests: each user's timestamps
  passed,       \* the times at which check_user_limit returned True, by user
  limiter_lock, \* AdvancedRateLimiter._lock: its holder and its waiters
  status_update_lock,  \* bot.status_update_lock: its holder and its waiters
  last_moderator_notification,  \* bot.last_moderator_notification
  channel       \* the notifications sent to the status channel

vars == <<strains, ratings, submissions, producers, valid_producers, cache,
          waiters, lockHolder, pc, snap, flow, call, loc, last, nOps,
          now, requests, admitted, config, user_requests, passed,
          limiter_lock, status_update_lock, last_moderator_notification,
          channel>>

lockVars == <<lockHolder, snap>>
producerVars == <<producers, valid_producers>>
timeVars == <<now, requests, admitted>>
botVars == <<config, user_requests, passed, limiter_lock, status_update_lock,
             last_moderator_notification, channel>>

\* asyncio.Lock(): nobody holds it, nobody waits
FreeLock == [holder |-> 0, waiters |-> <<>>]

\* Config's defaults: int(os.getenv("RATE_LIMIT_PER_USER", 5)) is scaled
\* down to DefaultLimit, RATE_LIMIT_WINDOW is 60 seconds
DefaultLimit == 2
DefaultWindow == 60
DefaultConfig == [limit |-> DefaultLimit, window |-> DefaultWindow]

\* AdvancedRateLimiter.__init__ and the bot's __init__
InitBot ==
  /\ user_requests = [u \in USERS |-> <<>>]
  /\ passed = [u \in USERS |-> <<>>]
  /\ limiter_lock = FreeLock
  /\ status_update_lock = FreeLock
  /\ last_moderator_notification = 0
  /\ channel = <<>>

NoFlow == [kind |-> "none"]
NoReply == [kind |-> "none", req |-> NoFlow, r |-> "none", id |-> "", err |-> FALSE]
NoSnap == [strains |-> <<>>, ratings |-> <<>>]

\* A sheet an earlier run of the bot left behind: an approved product and a
\* rating whose User_ID cell is in the plain form.
LegacyItem == [id |-> ID_A, name |-> N_Og, status |-> "Approved", avg |-> 200,
               total |-> 1, harvest |-> D_Harvest, package |-> D_Package,
               category |-> "flower", producer |-> P_Fyta]
LegacyRating == [rid |-> 1, item |-> ID_A, user |-> DecStr(1), value |-> 2]
LegacySubmission == [sid |-> 1, id |-> ID_A, name |-> N_Og,
                     user |-> DecStr(1), harvest |-> D_Harvest,
                     package |-> D_Package, category |-> "flower",
                     producer |-> P_Fyta]

\* __init__ of the manager and of the bot, then on_ready's load_producers
InitHandlers(T) ==
  /\ producers = <<P_Fyta>>
  /\ valid_producers = get_all_producers(<<P_Fyta>>, NoFail).res.v
  /\ cache = {}
  /\ waiters = <<>>
  /\ lockHolder = 0
  /\ pc = [t \in T |-> "idle"]
  /\ snap = [t \in T |-> NoSnap]
  /\ flow = [t \in T |-> NoFlow]
  /\ call = [t \in T |-> "-"]
  /\ loc = [t \in T |-> None]
  /\ last = NoReply
  /\ nOps = 0
  /\ now = 0
  /\ requests = <<>>
  /\ admitted = <<>>
  /\ InitBot

\* the bot starts on a new sheet or on the sheet of an earlier run
Init ==
  /\ \/ strains = <<>> /\ ratings = <<>> /\ submissions = <<>>
     \/ /\ strains = <<LegacyItem>>
        /\ ratings = <<LegacyRating>>
        /\ submissions = <<LegacySubmission>>
  /\ InitHandlers(Tasks)
  /\ config = DefaultConfig

K_strain_ == <<"s", "t", "r", "a", "i", "n", "_">>
K_strain_search_ == K_strain_ \o <<"s", "e", "a", "r", "c", "h", "_">>
K_all_approved_strains == <<"a", "l", "l", "_", "a", "p", "p", "r", "o", "v", "e", "d",
                            "_", "s", "t", "r", "a", "i", "n", "s">>
K_top_strains == <<"t", "o", "p", "_", "s", "t", "r", "a", "i", "n", "s">>

\* f"strain_search_{identifier.lower()}_{category or 'all'}"
cache_key(identifier, category) ==
  K_strain_search_ \o Lower(Chars(identifier)) \o <<"_">>
    \o Chars(IF category = NoCategory THEN "all" ELSE category)

\* A cache entry holds its key, the cached value and the time it was stored.
entry_key(e) == e.key

Seconds(n) == n * 10

\* cache_duration=60 of get_strain_by_identifier
StrainCacheDuration == Seconds(60)

\* cached_operation: `time.time() - timestamp < cache_duration`
Fresh_inclusive(e, cache_duration) == now - e.t <= cache_duration

Fresh(e, cache_duration) == now - e.t < cache_duration

StartsWith(s, prefix) ==
  Len(prefix) <= Len(s) /\ SubSeq(s, 1, Len(prefix)) = prefix

\* clear_cache(prefix)
clear_cache(c, prefix) == {e \in c : ~StartsWith(entry_key(e), prefix)}

\* the clear_cache calls add_rating makes after a success
clear_after_rating(c) ==
  clear_cache(clear_cache(clear_cache(c, K_strain_), K_all_approved_strains),
              K_top_strains)

\* the clear_cache calls approve_strain and rename_strain make after a success
clear_after_change(c) == clear_cache(clear_cache(c, K_strain_), K_top_strains)

\* cached_operation finds an entry for the key that is younger than
\* cache_duration
CacheHitWithin(c, key, cache_duration) ==
  \E e \in c : entry_key(e) = key /\ Fresh(e, cache_duration)

CacheHit(c, key) == CacheHitWithin(c, key, StrainCacheDuration)
CacheGet(c, key) == (CHOOSE e \in c : entry_key(e) = key).val

\* self.cache[cache_key] = (result, time.time())
CacheStore(c, key, val) ==
  {e \in c : entry_key(e) # key} \cup {[key |-> key, val |-> val, t |-> now]}

\* a cache that keeps whatever the operation returned
cache_result_always(c, key, result) == CacheStore(c, key, result)

\* cached_operation: `if result is not None: self.cache[cache_key] = ...`
cache_result(c, key, result) ==
  IF result # None THEN CacheStore(c, key, result) ELSE c

CachePut(c, identifier, category, val) ==
  CacheStore(c, cache_key(identifier, category), val)

\* ------------------------------------------------------ command handlers
\* In Spec a call of safe_operation is one step: the handler at the head of
\* the lock's queue runs its operation body, leaves the lock, does the
\* store method's cache work and goes on to its next await.  The store
\* method's code after `await self.safe_operation(...)` runs in the event
\* loop step that releases the lock, before any other handler's body, and
\* SpecLock shows the bodies to run one at a time in arrival order.

\* handler t calls a store method: it joins the queue q of the lock; err
\* tells whether the store call it comes from logged an error
CallStore(t, fl, c, lc, q, err) ==
  /\ flow' = [flow EXCEPT ![t] = fl]
  /\ call' = [call EXCEPT ![t] = c]
  /\ loc' = [loc EXCEPT ![t] = lc]
  /\ last' = [NoReply EXCEPT !.err = err]
  /\ waiters' = Append(q, t)
  /\ pc' = [pc EXCEPT ![t] = "waiting"]

\* handler t answers the request fl with r (and the id it names) and ends
Finish(t, fl, r, id, q, err) ==
  /\ flow' = [flow EXCEPT ![t] = NoFlow]
  /\ call' = [call EXCEPT ![t] = "-"]
  /\ loc' = [loc EXCEPT ![t] = None]
  /\ last' = [kind |-> fl.kind, req |-> fl, r |-> r, id |-> id, err |-> err]
  /\ waiters' = q
  /\ pc' = [pc EXCEPT ![t] = "idle"]

\* rate_strain: `if strain_data['Status'] != 'Approved'` is false
is_approved_unchecked(strain_data) == TRUE

is_approved(strain_data) == strain_data.status = "Approved"

\* What handler t does with the value r that get_strain_by_identifier gave
\* it at the start of /rate_strain, /approve_strain and /rename_strain.
AfterLookup(t, fl, r, q, err) ==
  CASE fl.kind = "rate" ->
         IF ~Truthy(r) THEN Finish(t, fl, "not_found", "", q, err)
         ELSE IF ~is_approved(r.v)
              THEN Finish(t, fl, "not_approved", r.v.id, q, err)
              ELSE CallStore(t, fl, "add_rating", r, q, err)
    [] fl.kind = "approve" ->
         IF ~Truthy(r) THEN Finish(t, fl, "not_found", "", q, err)
         ELSE IF r.v.status = "Approved"
              THEN Finish(t, fl, "already_approved", r.v.id, q, err)
              ELSE CallStore(t, fl, "approve_strain", r, q, err)
    [] fl.kind = "rename" ->
         IF ~Truthy(r) THEN Finish(t, fl, "not_found", "", q, err)
         ELSE CallStore(t, fl, "rename_strain", r, q, err)

\* cached_operation at the start of a handler: a cache hit answers without
\* the store, a miss calls safe_operation
Lookup(t, fl, identifier, category) ==
  /\ cache' = cache
  /\ IF CacheHit(cache, cache_key(identifier, category))
     THEN AfterLookup(t, fl, Rec(CacheGet(cache, cache_key(identifier, category))), waiters,
                      FALSE)
     ELSE CallStore(t, fl, "get_strain_by_identifier", None, waiters, FALSE)

\* A new interaction gets a handler of its own; which idle one is immaterial,
\* so it is the first.
CanStart(t) ==
  /\ pc[t] = "idle"
  /\ \A u \in 1..(t - 1) : pc[u] # "idle"
  /\ nOps < MaxOps

\* StrainSubmissionModal.on_submit after its input validation: the first
\* store call is check_strain_duplicate.  The producer was picked from a
\* select that an earlier /submit_strain filled from bot.valid_producers.
StartSubmit(t, name, harvest, package, category, producer, user) ==
  /\ CanStart(t)
  /\ nOps' = nOps + 1
  /\ CallStore(t, [kind |-> "submit", name |-> name, harvest |-> harvest,
                   package |-> package, category |-> category,
                   producer |-> producer, user |-> user],
               "check_strain_duplicate", None, waiters, FALSE)
  /\ UNCHANGED <<botVars, strains, ratings, submissions, cache, lockVars, timeVars, producerVars>>

\* /rate_strain
StartRate(t, identifier, user, value, category) ==
  /\ CanStart(t)
  /\ nOps' = nOps + 1
  /\ Lookup(t, [kind |-> "rate", identifier |-> identifier, user |-> user,
                value |-> value, category |-> category],
            identifier, category)
  /\ UNCHANGED <<botVars, strains, ratings, submissions, lockVars, timeVars, producerVars>>

\* /approve_strain
StartApprove(t, identifier) ==
  /\ CanStart(t)
  /\ nOps' = nOps + 1
  /\ Lookup(t, [kind |-> "approve", identifier |-> identifier, category |-> NoCategory],
            identifier, NoCategory)
  /\ UNCHANGED <<botVars, strains, ratings, submissions, lockVars, timeVars, producerVars>>

\* A numbered button of a PendingApprovalView: the view was built from a
\* get_pending_strains listing and stays clickable for ten minutes, so the
\* product whose Unique_ID it holds may have been approved since.
StartApproveButton(t, i) ==
  /\ CanStart(t)
  /\ i \in DOMAIN strains
  /\ nOps' = nOps + 1
  /\ CallStore(t, [kind |-> "button", identifier |-> strains[i].id],
               "approve_strain", None, waiters, FALSE)
  /\ UNCHANGED <<botVars, strains, ratings, submissions, cache, lockVars, timeVars, producerVars>>

\* /rename_strain after validate_strain_name
StartRename(t, unique_id, new_name) ==
  /\ CanStart(t)
  /\ nOps' = nOps + 1
  /\ Lookup(t, [kind |-> "rename", identifier |-> unique_id, name |-> new_name,
                category |-> NoCategory],
            unique_id, NoCategory)
  /\ UNCHANGED <<botVars, strains, ratings, submissions, lockVars, timeVars, producerVars>>

\* handler t is the next one the lock admits and it is calling c
AtHead(t, c) == waiters # <<>> /\ Head(waiters) = t /\ call[t] = c

\* check_strain_duplicate, then on_submit's branch on its result
ExecCheckDuplicate(t, fail) ==
  /\ AtHead(t, "check_strain_duplicate")
  /\ LET r == check_strain_duplicate(strains, flow[t].name, flow[t].harvest,
                flow[t].package, flow[t].category, flow[t].producer, fail)
     IN IF Truthy(r.res)
        THEN Finish(t, flow[t], "duplicate", r.res.v, Tail(waiters), r.err)
        ELSE CallStore(t, flow[t], "add_strain_submission", None, Tail(waiters), r.err)
  /\ UNCHANGED <<botVars, strains, ratings, submissions, cache, nOps, lockVars, timeVars, producerVars>>

\* add_strain_submission, then on_submit's reply
ExecAddSubmission(t, unique_id, fail) ==
  /\ AtHead(t, "add_strain_submission")
  /\ LET out == add_strain_submission(strains, submissions, flow[t].name,
                  flow[t].harvest, flow[t].package, flow[t].category,
                  flow[t].producer, flow[t].user, unique_id, fail)
     IN /\ strains' = out.strains
        /\ submissions' = out.submissions
        /\ IF Truthy(out.res)
           THEN Finish(t, flow[t], "submitted", out.res.v, Tail(waiters), out.err)
           ELSE Finish(t, flow[t], "failed", "", Tail(waiters), out.err)
  /\ UNCHANGED <<botVars, ratings, cache, nOps, lockVars, timeVars, producerVars>>

\* get_strain_by_identifier on a cache miss: the operation, the cache write
\* of cached_operation, then the handler's branch on the result
ExecGetStrain(t, fail) ==
  /\ AtHead(t, "get_strain_by_identifier")
  /\ LET r == get_strain_by_identifier(strains, flow[t].identifier, flow[t].category, fail)
     IN /\ cache' = IF r.res # None
                    THEN CachePut(cache, flow[t].identifier, flow[t].category, r.res.v)
                    ELSE cache
        /\ AfterLookup(t, flow[t], r.res, Tail(waiters), r.err)
  /\ UNCHANGED <<botVars, strains, ratings, submissions, nOps, lockVars, timeVars, producerVars>>

\* add_rating: the operation and, on success, its clear_cache calls; then
\* rate_strain goes on to read the updated strain or replies
ExecAddRating(t, fail) ==
  /\ AtHead(t, "add_rating")
  /\ LET out == add_rating_operation(strains, ratings, flow[t].identifier,
                  flow[t].user, flow[t].value, flow[t].category, fail)
     IN /\ strains' = out.strains
        /\ ratings' = out.ratings
        /\ IF Truthy(out.res)
           THEN /\ cache' = clear_after_rating(cache)
                /\ CallStore(t, flow[t], "get_updated_strain", loc[t], Tail(waiters),
                             out.err)
           ELSE /\ cache' = cache
                /\ Finish(t, flow[t], "failed", "", Tail(waiters), out.err)
  /\ UNCHANGED <<botVars, submissions, nOps, lockVars, timeVars, producerVars>>

\* rate_strain's second get_strain_by_identifier (the cache was just
\* cleared, so it reads the store), then its reply
ExecGetUpdated(t, fail) ==
  /\ AtHead(t, "get_updated_strain")
  /\ LET r == get_strain_by_identifier(strains, flow[t].identifier, flow[t].category, fail)
     IN /\ cache' = IF r.res # None
                    THEN CachePut(cache, flow[t].identifier, flow[t].category, r.res.v)
                    ELSE cache
        /\ Finish(t, flow[t], "rated", loc[t].v.id, Tail(waiters), r.err)
  /\ UNCHANGED <<botVars, strains, ratings, submissions, nOps, lockVars, timeVars, producerVars>>

\* approve_strain: the operation and, on success, its clear_cache calls;
\* then the reply of the command or of the button
ExecApprove(t, fail) ==
  /\ AtHead(t, "approve_strain")
  /\ LET out == approve_strain(strains, flow[t].identifier, fail)
     IN /\ strains' = out.strains
        /\ IF Truthy(out.res)
           THEN /\ cache' = clear_after_change(cache)
                /\ Finish(t, flow[t], "approved", "", Tail(waiters), out.err)
           ELSE /\ cache' = cache
                /\ Finish(t, flow[t], "failed", "", Tail(waiters), out.err)
  /\ UNCHANGED <<botVars, ratings, submissions, nOps, lockVars, timeVars, producerVars>>

\* rename_strain: the operation and, on success, its clear_cache calls
ExecRename(t, fail) ==
  /\ AtHead(t, "rename_strain")
  /\ LET out == rename_strain(strains, flow[t].identifier, flow[t].name, fail)
     IN /\ strains' = out.strains
        /\ IF Truthy(out.res)
           THEN /\ cache' = clear_after_change(cache)
                /\ Finish(t, flow[t], "renamed", "", Tail(waiters), out.err)
           ELSE /\ cache' = cache
                /\ Finish(t, flow[t], "failed", "", Tail(waiters), out.err)
  /\ UNCHANGED <<botVars, ratings, submissions, nOps, lockVars, timeVars, producerVars>>

\* ------------------------------------------------------ producer commands
\* /add_producer after its check of the name's length
StartAddProducer(t, producer_name) ==
  /\ CanStart(t)
  /\ nOps' = nOps + 1
  /\ LET cleaned_name == Strip(Chars(producer_name))
         fl == [kind |-> "add_producer", name |-> producer_name]
     IN IF Len(cleaned_name) < 2 \/ Len(cleaned_name) > ProducerMaxLen
        THEN Finish(t, fl, "invalid", "", waiters, FALSE)
        ELSE CallStore(t, [fl EXCEPT !.name = Text(cleaned_name)],
                       "add_producer", None, waiters, FALSE)
  /\ UNCHANGED <<botVars, strains, ratings, submissions, cache, lockVars, timeVars, producerVars>>

\* /remove_producer: a name that is not in bot.valid_producers is refused
\* without a store call
StartRemoveProducer(t, producer_name) ==
  /\ CanStart(t)
  /\ nOps' = nOps + 1
  /\ LET cleaned_name == Strip(Chars(producer_name))
         fl == [kind |-> "remove_producer", name |-> producer_name]
     IN IF cleaned_name = <<>> THEN Finish(t, fl, "invalid", "", waiters, FALSE)
        ELSE IF Text(cleaned_name) \notin valid_producers
             THEN Finish(t, fl, "not_found", "", waiters, FALSE)
             ELSE CallStore(t, [fl EXCEPT !.name = Text(cleaned_name)],
                            "remove_producer", None, waiters, FALSE)
  /\ UNCHANGED <<botVars, strains, ratings, submissions, cache, lockVars, timeVars, producerVars>>

\* add_producer, then the handler reloads the list or replies
ExecAddProducer(t, fail) ==
  /\ AtHead(t, "add_producer")
  /\ LET out == add_producer(producers, flow[t].name, fail)
     IN /\ producers' = out.producers
        /\ IF Truthy(out.res)
           THEN CallStore(t, flow[t], "get_all_producers", None, Tail(waiters),
                          out.err)
           ELSE Finish(t, flow[t], "failed", "", Tail(waiters), out.err)
  /\ UNCHANGED <<botVars, strains, ratings, submissions, cache, valid_producers, nOps, lockVars, timeVars>>

\* remove_producer, then the handler reloads the list or replies
ExecRemoveProducer(t, fail) ==
  /\ AtHead(t, "remove_producer")
  /\ LET out == remove_producer(producers, flow[t].name, fail)
     IN /\ producers' = out.producers
        /\ IF Truthy(out.res)
           THEN CallStore(t, flow[t], "get_all_producers", None, Tail(waiters),
                          out.err)
           ELSE Finish(t, flow[t], "failed", "", Tail(waiters), out.err)
  /\ UNCHANGED <<botVars, strains, ratings, submissions, cache, valid_producers, nOps, lockVars, timeVars>>

\* load_producers: get_all_producers, bot.valid_producers, then the reply
ExecLoadProducers(t, fail) ==
  /\ AtHead(t, "get_all_producers")
  /\ LET r == get_all_producers(producers, fail)
     IN /\ valid_producers' = IF Truthy(r.res) THEN r.res.v ELSE default_producers
        /\ Finish(t, flow[t], "done", "", Tail(waiters), r.err)
  /\ UNCHANGED <<botVars, strains, ratings, submissions, producers, cache, nOps, lockVars, timeVars>>

\* Spec leaves the clock alone: a cache entry reaching its cache_duration is
\* the entry dropped, which is what cached_operation's ignoring it and
\* overwriting it later comes to.  SpecCache has the clock.
Expire(e) ==
  /\ e \in cache
  /\ cache' = cache \ {e}
  /\ last' = NoReply
  /\ UNCHANGED <<botVars, strains, ratings, submissions, waiters, pc, flow, call, loc,
                 nOps, lockVars, timeVars, producerVars>>

Next ==
  \/ \E t \in Tasks, name \in NAMES, harvest \in HARVESTS, package \in PACKAGES,
        category \in CATEGORIES, producer \in PRODUCERS, user \in SUBMITTERS :
       StartSubmit(t, name, harvest, package, category, producer, user)
  \/ \E t \in Tasks, identifier \in IDENTS, user \in USERS, value \in RATING_VALUES,
        category \in RATE_CATEGORIES :
       StartRate(t, identifier, user, value, category)
  \/ \E t \in Tasks, identifier \in IDENTS : StartApprove(t, identifier)
  \/ \E t \in Tasks, i \in DOMAIN strains : StartApproveButton(t, i)
  \/ \E t \in Tasks, unique_id \in IDS, new_name \in NEW_NAMES : StartRename(t, unique_id, new_name)
  \/ \E t \in Tasks, fail \in FailPoints(1) : ExecCheckDuplicate(t, fail)
  \/ \E t \in Tasks, unique_id \in IDS, fail \in FailPoints(2) : ExecAddSubmission(t, unique_id, fail)
  \/ \E t \in Tasks, fail \in FailPoints(1) : ExecGetStrain(t, fail)
  \/ \E t \in Tasks, fail \in FailPoints(3) : ExecAddRating(t, fail)
  \/ \E t \in Tasks, fail \in FailPoints(1) : ExecGetUpdated(t, fail)
  \/ \E t \in Tasks, fail \in FailPoints(1) : ExecApprove(t, fail)
  \/ \E t \in Tasks, fail \in FailPoints(1) : ExecRename(t, fail)
  \/ \E t \in Tasks, producer_name \in PRODUCER_ARGS : StartAddProducer(t, producer_name)
  \/ \E t \in Tasks, producer_name \in PRODUCER_ARGS : StartRemoveProducer(t, producer_name)
  \/ \E t \in Tasks, fail \in FailPoints(1) : ExecAddProducer(t, fail)
  \/ \E t \in Tasks, fail \in FailPoints(1) : ExecRemoveProducer(t, fail)
  \/ \E t \in Tasks, fail \in FailPoints(1) : ExecLoadProducers(t, fail)
  \/ \E e \in cache : Expire(e)

Spec == Init /\ [][Next]_vars

TypeOK ==
  /\ lockHolder \in Tasks \cup LockTasks \cup {0}
  /\ \A t \in DOMAIN pc : pc[t] \in {"idle", "waiting", "inbody", "read", "ran", "send", "sleep"}
  /\ \A i \in DOMAIN strains : strains[i].status \in {"Pending", "Approved"}
  /\ \A i \in DOMAIN waiters : pc[waiters[i]] = "waiting"
  /\ Len(strains) <= MaxOps + 2


\* --------------------------------------------------------- safe_operation
\* SpecLock: callers of add_rating and approve_strain, with safe_operation
\* taken apart.  `async with self._lock` takes the lock at once when it is
\* free and nobody waits for it, and queues the caller otherwise; leaving
\* the block frees the lock and wakes the longest waiter, which takes the
\* lock when the event loop runs it.  The operation body runs on the
\* executor: it reads the sheets, then writes cells and rows.

\* a product submitted and not yet approved
PendingItem == [id |-> ID_E, name |-> N_O_G, status |-> "Pending", avg |-> 0,
                total |-> 0, harvest |-> D_Package, package |-> D_Package,
                category |-> "flower", producer |-> P_Fyta]
PendingSubmission == [sid |-> 2, id |-> ID_E, name |-> N_O_G,
                      user |-> format_user_id_for_sheets(1),
                      harvest |-> D_Package, package |-> D_Package,
                      category |-> "flower", producer |-> P_Fyta]

InitLock ==
  /\ strains = <<LegacyItem, PendingItem>>
  /\ ratings = <<LegacyRating>>
  /\ submissions = <<LegacySubmission, PendingSubmission>>
  /\ InitHandlers(LockTasks)
  /\ config = DefaultConfig

\* the store calls the callers make
LockCalls ==
  {[kind |-> "add_rating", identifier |-> i, user |-> u, value |-> v]
     : i \in {"og", ID_E}, u \in USERS, v \in RATING_VALUES}
    \cup {[kind |-> "approve_strain", identifier |-> ID_E]}

\* the operation body of call c on the sheets s, the store failing at fail
LockOp(c, s, fail) ==
  IF c.kind = "add_rating"
  THEN add_rating_operation(s.strains, s.ratings, c.identifier, c.user,
                            c.value, NoCategory, fail)
  ELSE [ratings |-> s.ratings] @@ approve_strain(s.strains, c.identifier, fail)

\* asyncio.Lock.acquire without waiting
CanAcquire_unlocked == TRUE

CanAcquire == lockHolder = 0 /\ waiters = <<>>

\* the waiter that release() wakes
wake_up_last(q) == q[Len(q)]

wake_up_first(q) == Head(q)

InBody(t) == pc[t] \in {"inbody", "read", "ran"}

\* a caller reaches `async with self._lock`
LockCall(t, c) ==
  /\ pc[t] = "idle"
  /\ nOps < MaxOps
  /\ nOps' = nOps + 1
  /\ flow' = [flow EXCEPT ![t] = c @@ [seq |-> nOps + 1]]
  /\ IF CanAcquire
     THEN /\ lockHolder' = t
          /\ pc' = [pc EXCEPT ![t] = "inbody"]
          /\ waiters' = waiters
     ELSE /\ lockHolder' = lockHolder
          /\ pc' = [pc EXCEPT ![t] = "waiting"]
          /\ waiters' = Append(waiters, t)
  /\ last' = NoReply
  /\ UNCHANGED <<botVars, strains, ratings, submissions, cache, snap, call, loc, producerVars, timeVars>>

\* the woken waiter takes the lock
LockWake(t) ==
  /\ lockHolder = 0
  /\ waiters # <<>>
  /\ t = wake_up_first(waiters)
  /\ lockHolder' = t
  /\ waiters' = SelectSeq(waiters, LAMBDA u : u # t)
  /\ pc' = [pc EXCEPT ![t] = "inbody"]
  /\ last' = NoReply
  /\ UNCHANGED <<botVars, strains, ratings, submissions, cache, snap, flow, call, loc,
                 nOps, producerVars, timeVars>>

\* wait_if_needed, then the body's get_all_records calls on the executor
BodyRead(t, fail) ==
  /\ pc[t] = "inbody"
  /\ IF fail = 0
     THEN /\ loc' = [loc EXCEPT ![t] =
                       LockOp(flow[t], [strains |-> strains, ratings |-> ratings], 0).res]
          /\ pc' = [pc EXCEPT ![t] = "ran"]
          /\ snap' = snap
     ELSE /\ snap' = [snap EXCEPT ![t] = [strains |-> strains, ratings |-> ratings]]
          /\ pc' = [pc EXCEPT ![t] = "read"]
          /\ loc' = loc
  /\ last' = [NoReply EXCEPT !.err = (fail = 0)]
  /\ UNCHANGED <<botVars, strains, ratings, submissions, cache, waiters, lockHolder, flow,
                 call, nOps, producerVars, timeVars>>

\* the cells of `after` that differ from `before`, written into `cur`
WriteCells(cur, before, after) ==
  [i \in DOMAIN cur |->
     IF i \in DOMAIN before
     THEN [f \in DOMAIN cur[i] |->
             IF after[i][f] # before[i][f] THEN after[i][f] ELSE cur[i][f]]
     ELSE cur[i]]

\* the body's append_row and update_cell calls, worked out from what it read
BodyWrite(t, fail) ==
  /\ pc[t] = "read"
  /\ LET out == LockOp(flow[t], snap[t], fail)
     IN /\ strains' = WriteCells(strains, snap[t].strains, out.strains)
        /\ ratings' = ratings \o SubSeq(out.ratings, Len(snap[t].ratings) + 1,
                                        Len(out.ratings))
        /\ loc' = [loc EXCEPT ![t] = out.res]
        /\ last' = [NoReply EXCEPT !.err = out.err]
  /\ pc' = [pc EXCEPT ![t] = "ran"]
  /\ snap' = [snap EXCEPT ![t] = NoSnap]
  /\ UNCHANGED <<botVars, submissions, cache, waiters, lockHolder, flow, call, nOps,
                 producerVars, timeVars>>

\* the executor's future is done: the caller leaves `async with`, which
\* frees the lock, and the store method clears the cache after a success
LockRelease(t) ==
  /\ pc[t] = "ran"
  /\ lockHolder' = 0
  /\ pc' = [pc EXCEPT ![t] = "idle"]
  /\ cache' = IF ~Truthy(loc[t]) THEN cache
              ELSE IF flow[t].kind = "add_rating" THEN clear_after_rating(cache)
              ELSE clear_after_change(cache)
  /\ last' = [kind |-> flow[t].kind, req |-> flow[t],
              r |-> IF Truthy(loc[t]) THEN "ok" ELSE "failed", id |-> "",
              err |-> FALSE]
  /\ flow' = [flow EXCEPT ![t] = NoFlow]
  /\ loc' = [loc EXCEPT ![t] = None]
  /\ UNCHANGED <<botVars, strains, ratings, submissions, waiters, snap, call, nOps,
                 producerVars, timeVars>>

NextLock ==
  \/ \E t \in LockTasks, c \in LockCalls : LockCall(t, c)
  \/ \E t \in LockTasks : LockWake(t)
  \/ \E t \in LockTasks, fail \in {0, NoFail} : BodyRead(t, fail)
  \/ \E t \in LockTasks, fail \in 1..NoFail : BodyWrite(t, fail)
  \/ \E t \in LockTasks : LockRelease(t)

SpecLock == InitLock /\ [][NextLock]_vars

\* ------------------------------------------------------------ RateLimiter
\* SpecLimiter: callers of safe_operation with the rate limiter in it.  The
\* caller that holds the lock runs wait_if_needed, which is synchronous:
\* its time.sleep stops the whole event loop, so the call with its sleep is
\* one step.  The operation then runs on the executor, where other callers
\* may arrive and time may pass, and its return frees the lock.

\* RateLimiter(max_requests=90, time_window=60), with the quota scaled down
max_requests == 2
time_window == Seconds(60)
\* the 0.1 s added to every sleep
SleepMargin == 1

\* store calls made, and the clock's last value at which callers arrive
MaxCalls == 5
MaxSeconds == 120

\* [req_time for req_time in self.requests if now - req_time < self.time_window]
in_window(reqs, t) == SelectSeq(reqs, LAMBDA req_time : t - req_time < time_window)

\* self.time_window - (now - self.requests[0]) + 0.1
sleep_time_added(reqs, t) == time_window + (t - reqs[1]) + SleepMargin

sleep_time(reqs, t) == time_window - (t - reqs[1]) + SleepMargin

\* wait_if_needed at time t: the new request list and the time slept
wait_if_needed(reqs, t) ==
  LET kept == in_window(reqs, t)
      slept == IF Len(kept) >= max_requests /\ sleep_time(kept, t) > 0
               THEN sleep_time(kept, t) ELSE 0
  IN [requests |-> Append(kept, t), slept |-> slept]

\* a caller reaches `async with self._lock`
LimCall(t) ==
  /\ pc[t] = "idle"
  /\ nOps < MaxCalls
  /\ nOps' = nOps + 1
  /\ IF CanAcquire
     THEN /\ lockHolder' = t
          /\ pc' = [pc EXCEPT ![t] = "inbody"]
          /\ waiters' = waiters
     ELSE /\ lockHolder' = lockHolder
          /\ pc' = [pc EXCEPT ![t] = "waiting"]
          /\ waiters' = Append(waiters, t)
  /\ UNCHANGED <<botVars, strains, ratings, submissions, cache, snap, flow, call, loc,
                 last, producerVars, timeVars>>

\* self._rate_limiter.wait_if_needed(), its sleep included
LimAdmit(t) ==
  /\ pc[t] = "inbody"
  /\ LET w == wait_if_needed(requests, now)
     IN /\ requests' = w.requests
        /\ now' = now + w.slept
        /\ admitted' = Append(admitted, now + w.slept)
  /\ pc' = [pc EXCEPT ![t] = "ran"]
  /\ UNCHANGED <<botVars, strains, ratings, submissions, cache, snap, flow, call, loc,
                 last, waiters, lockHolder, nOps, producerVars>>

\* the operation returns on the executor and the caller leaves `async with`
LimDone(t) ==
  /\ pc[t] = "ran"
  /\ lockHolder' = 0
  /\ pc' = [pc EXCEPT ![t] = "idle"]
  /\ UNCHANGED <<botVars, strains, ratings, submissions, cache, snap, flow, call, loc,
                 last, waiters, nOps, producerVars, timeVars>>

\* time passes while the event loop is free to run
Tick(d) ==
  /\ now < Seconds(MaxSeconds)
  /\ now' = now + d
  /\ UNCHANGED <<botVars, strains, ratings, submissions, cache, snap, flow, call, loc,
                 last, waiters, lockHolder, pc, nOps, producerVars, requests,
                 admitted>>

NextLimiter ==
  \/ \E t \in LockTasks : LimCall(t)
  \/ \E t \in LockTasks : LockWake(t)
  \/ \E t \in LockTasks : LimAdmit(t)
  \/ \E t \in LockTasks : LimDone(t)
  \/ \E d \in {Seconds(30), Seconds(60)} : Tick(d)

SpecLimiter == InitLock /\ [][NextLimiter]_vars

\* the event loop runs every woken waiter, wait_if_needed is straight-line
\* code, and every backing call terminates
SpecLimiterFair ==
  /\ SpecLimiter
  /\ \A t \in LockTasks :
       WF_vars(LockWake(t)) /\ WF_vars(LimAdmit(t)) /\ WF_vars(LimDone(t))

\* ------------------------------------------------------- cached_operation
\* SpecCache: the cached reads and the mutations that clear the cache, one
\* call after the other, with the clock running between them.

\* results that are lists of Strains rows
Rows(seq) == [tag |-> "rows", rows |-> seq]

\* get_all_approved_strains.sort_key; get_top_strains_for_status sorts rows
\* with Total_Ratings > 0 by float(Average_Rating), the same key
sort_key(strain) == IF strain.total > 0 THEN strain.avg ELSE -1

\* sorted(rows, key=sort_key, reverse=True): rows of equal key keep their order
RECURSIVE sorted_strains(_)
sorted_strains(rows) ==
  IF rows = <<>> THEN <<>>
  ELSE LET rest == sorted_strains(Tail(rows))
           n == Cardinality({i \in DOMAIN rest :
                               sort_key(rest[i]) > sort_key(Head(rows))})
       IN SubSeq(rest, 1, n) \o <<Head(rows)>> \o SubSeq(rest, n + 1, Len(rest))

\* get_top_strains_for_status.operation
get_top_strains_for_status(rows, category, limit) ==
  LET Shown(r) == /\ r.status = "Approved"
                  /\ r.total > 0
                  /\ Lower(Chars(r.category)) = Lower(Chars(category))
      sorted == sorted_strains(SelectSeq(rows, Shown))
  IN Rows(SubSeq(sorted, 1, IF Len(sorted) < limit THEN Len(sorted) ELSE limit))

\* get_all_approved_strains.operation
get_all_approved_strains(rows, category) ==
  LET Approved(r) == r.status = "Approved" /\ InCategory(r, category)
  IN Rows(sorted_strains(SelectSeq(rows, Approved)))

\* get_recent_ratings_for_status.operation: strain_lookup keeps the last
\* row of each Unique_ID; the Ratings rows are taken newest first (rows
\* are appended in the order of their Date_Rated), cut to limit, and those
\* whose product is not Approved are left out
get_recent_ratings_for_status(rats, rows, limit) ==
  LET strain_lookup(id) ==
        LET S == {i \in DOMAIN rows : rows[i].id = id}
        IN IF S = {} THEN None ELSE Rec(rows[CHOOSE i \in S : \A j \in S : j <= i])
      sorted_ratings == [k \in DOMAIN rats |-> rats[Len(rats) + 1 - k]]
      cut == SubSeq(sorted_ratings, 1, IF Len(rats) < limit THEN Len(rats) ELSE limit)
      Shown(r) == /\ strain_lookup(r.item) # None
                  /\ strain_lookup(r.item).v.status = "Approved"
  IN SelectSeq(cut, Shown)

\* store calls made
MaxCacheOps == 4
\* rows get_top_strains_for_status is asked for
TopLimit == 10

\* the cached reads the bot makes
Reads ==
  {[kind |-> "get_strain_by_identifier", identifier |-> i, category |-> NoCategory]
     : i \in {"og", ID_E}}
    \cup {[kind |-> "get_all_approved_strains", category |-> c]
            : c \in {NoCategory, "flower"}}
    \cup {[kind |-> "get_top_strains_for_status", category |-> "flower"]}

\* the cache key and cache_duration a read passes to cached_operation, and
\* what its operation returns on the sheet rows
ReadPlan(r, rows) ==
  CASE r.kind = "get_strain_by_identifier" ->
         [key |-> cache_key(r.identifier, r.category),
          cache_duration |-> StrainCacheDuration,
          res |-> get_strain_by_identifier(rows, r.identifier, r.category, NoFail).res]
    [] r.kind = "get_all_approved_strains" ->
         [key |-> K_all_approved_strains \o <<"_">>
                    \o Chars(IF r.category = NoCategory THEN "all" ELSE r.category),
          cache_duration |-> Seconds(120),
          res |-> get_all_approved_strains(rows, r.category)]
    [] r.kind = "get_top_strains_for_status" ->
         [key |-> K_top_strains \o <<"_">> \o Chars(r.category) \o <<"_">>
                    \o DecStr(TopLimit),
          cache_duration |-> Seconds(120),
          res |-> get_top_strains_for_status(rows, r.category, TopLimit)]

\* cached_operation(cache_key, operation, cache_duration)
CachedRead(r, fail) ==
  /\ nOps < MaxCacheOps
  /\ nOps' = nOps + 1
  /\ LET plan == ReadPlan(r, strains)
         hit == CacheHitWithin(cache, plan.key, plan.cache_duration)
         result == IF fail = 0 THEN None ELSE plan.res
     IN IF hit
        THEN /\ fail = NoFail
             /\ cache' = cache
             /\ last' = [kind |-> r.kind, req |-> r, r |-> "hit", id |-> "",
                         err |-> FALSE, res |-> CacheGet(cache, plan.key)]
        ELSE /\ cache' = cache_result(cache, plan.key, result)
             /\ last' = [kind |-> r.kind, req |-> r, r |-> "miss", id |-> "",
                         err |-> (fail = 0), res |-> result]
  /\ UNCHANGED <<botVars, strains, ratings, submissions, waiters, lockHolder, pc, snap,
                 flow, call, loc, producerVars, timeVars>>

\* the mutations that clear cache entries
Mutations ==
  {[kind |-> "approve_strain", identifier |-> ID_E]}
    \cup {[kind |-> "rename_strain", identifier |-> ID_A, name |-> n] : n \in NEW_NAMES}
    \cup {[kind |-> "add_rating", identifier |-> "og", user |-> u, value |-> v]
            : u \in USERS, v \in RATING_VALUES}

\* approve_strain, rename_strain and add_rating: the operation, then the
\* clear_cache calls when it returned True
Mutate(m, fail) ==
  /\ nOps < MaxCacheOps
  /\ nOps' = nOps + 1
  /\ LET out == CASE m.kind = "approve_strain" ->
                       [ratings |-> ratings] @@ approve_strain(strains, m.identifier, fail)
                  [] m.kind = "rename_strain" ->
                       [ratings |-> ratings]
                         @@ rename_strain(strains, m.identifier, m.name, fail)
                  [] m.kind = "add_rating" ->
                       add_rating_operation(strains, ratings, m.identifier, m.user,
                                            m.value, NoCategory, fail)
     IN /\ strains' = out.strains
        /\ ratings' = out.ratings
        /\ cache' = IF ~Truthy(out.res) THEN cache
                    ELSE IF m.kind = "add_rating" THEN clear_after_rating(cache)
                    ELSE clear_after_change(cache)
        /\ last' = [kind |-> m.kind, req |-> m,
                    r |-> IF Truthy(out.res) THEN "ok" ELSE "failed",
                    id |-> "", err |-> out.err]
  /\ UNCHANGED <<botVars, submissions, waiters, lockHolder, pc, snap, flow, call, loc,
                 producerVars, timeVars>>

NextCache ==
  \/ \E r \in Reads, fail \in {0, NoFail} : CachedRead(r, fail)
  \/ \E m \in Mutations, fail \in 0..NoFail : Mutate(m, fail)
  \/ \E d \in {Seconds(30), Seconds(60)} : Tick(d)

SpecCache == InitLock /\ [][NextCache]_vars

\* --------------------------------------------------- add_strain_submission
\* SpecSubmit: add_strain_submission called with arguments that on_submit's
\* own validation would not let through.
MaxSubmits == 2

\* harvest and package dates, and categories, the store method is given
DATE_ARGS == {D_Harvest, "1-2-2024", "31-02-2024", "2024-12-01", ""}
CATEGORY_ARGS == {"flower", "Hash", "edible"}

DirectSubmit(harvest, package, category, unique_id, fail) ==
  /\ nOps < MaxSubmits
  /\ nOps' = nOps + 1
  /\ LET out == add_strain_submission(strains, submissions, N_Og, harvest, package,
                                      category, P_Fyta, 1, unique_id, fail)
     IN /\ strains' = out.strains
        /\ submissions' = out.submissions
        /\ last' = [kind |-> "add_strain_submission",
                    req |-> [harvest |-> harvest, package |-> package,
                             category |-> category],
                    r |-> IF Truthy(out.res) THEN "ok" ELSE "failed",
                    id |-> "", err |-> out.err, res |-> out.res]
  /\ UNCHANGED <<botVars, ratings, cache, waiters, lockHolder, pc, snap, flow, call, loc,
                 producerVars, timeVars>>

\* the lookups made between the submissions
NextSubmit ==
  \/ \E harvest \in DATE_ARGS, package \in DATE_ARGS, category \in CATEGORY_ARGS,
        unique_id \in IDS, fail \in FailPoints(2) :
       DirectSubmit(harvest, package, category, unique_id, fail)
  \/ \E r \in {q \in Reads : q.kind = "get_strain_by_identifier"},
        fail \in {0, NoFail} :
       CachedRead(r, fail)

SpecSubmit == Init /\ [][NextSubmit]_vars

\* ------------------------------------------------------------ store calls
\* SpecStore: the store's methods called one at a time, as the lock runs
\* them, on Strains sheets that submissions, approvals and ratings leave
\* behind.  Two rows of a sheet may carry one Unique_ID (token_hex repeats
\* a value) and one name.

\* a product named like another product's Unique_ID
IdNamedItem == [id |-> "0000000B", name |-> "A1B2C3D4", status |-> "Approved",
                avg |-> 0, total |-> 0, harvest |-> D_Harvest, package |-> D_Package,
                category |-> "hash", producer |-> "Unknown"]
BlueDream == [id |-> "0000000C", name |-> "Blue Dream", status |-> "Approved",
              avg |-> 0, total |-> 0, harvest |-> D_Harvest, package |-> D_Package,
              category |-> "flower", producer |-> P_Fyta]
\* a product whose Unique_ID came out as the one of LegacyItem
Blueberry == [id |-> ID_A, name |-> "Blueberry", status |-> "Approved", avg |-> 0,
              total |-> 0, harvest |-> D_Harvest, package |-> D_Package,
              category |-> "flower", producer |-> P_Fyta]
SourDiesel == [id |-> "0000000D", name |-> "Sour Diesel", status |-> "Approved",
               avg |-> 300, total |-> 1, harvest |-> D_Harvest,
               package |-> D_Package, category |-> "hash", producer |-> P_Fyta]
Blues == [id |-> "0000000F", name |-> "Blues", status |-> "Pending", avg |-> 0,
          total |-> 0, harvest |-> D_Harvest, package |-> D_Package,
          category |-> "flower", producer |-> P_Fyta]

ITEMS == {LegacyItem, PendingItem, IdNamedItem, BlueDream, Blueberry, SourDiesel, Blues}

\* rows of a Strains sheet
MaxRows == 2
\* mutating store calls made
MaxStoreOps == 1

\* the Ratings rows behind the aggregates of the rows of a Strains sheet
RatingsOf(rows) ==
  LET of_legacy == IF \E i \in DOMAIN rows : rows[i] = LegacyItem
                   THEN <<LegacyRating>> ELSE <<>>
  IN IF \E i \in DOMAIN rows : rows[i] = SourDiesel
     THEN Append(of_legacy, [rid |-> Len(of_legacy) + 1, item |-> SourDiesel.id,
                             user |-> format_user_id_for_sheets(1), value |-> 3])
     ELSE of_legacy

\* one or two products, with one Unique_ID each or with the second one's
\* Unique_ID repeating the first one's
InitStore ==
  /\ strains \in UNION {[1..n -> ITEMS] : n \in 1..MaxRows}
  /\ \/ \A i, j \in DOMAIN strains : i # j => strains[i].id # strains[j].id
     \/ strains = <<LegacyItem, Blueberry>>
  /\ ratings = RatingsOf(strains)
  /\ submissions = [i \in DOMAIN strains |->
                      [sid |-> i, id |-> strains[i].id, name |-> strains[i].name,
                       user |-> format_user_id_for_sheets(1),
                       harvest |-> strains[i].harvest, package |-> strains[i].package,
                       category |-> strains[i].category,
                       producer |-> strains[i].producer]]
  /\ InitHandlers(Tasks)
  /\ config = DefaultConfig

\* what a direct call puts out
Returned(kind, req, res, err) ==
  [kind |-> kind, req |-> req, r |-> IF Truthy(res) THEN "ok" ELSE "failed",
   id |-> "", err |-> err, res |-> res]

\* get_strain_by_identifier(identifier, category), the cache empty
CallGetStrain(identifier, category, fail) ==
  /\ last' = Returned("get_strain_by_identifier",
                      [identifier |-> identifier, category |-> category],
                      get_strain_by_identifier(strains, identifier, category, fail).res,
                      fail = 0)
  /\ UNCHANGED <<botVars, strains, ratings, submissions, cache, waiters, lockHolder, pc, snap,
                 flow, call, loc, nOps, producerVars, timeVars>>

\* check_strain_duplicate(strain_name, harvest_date, package_date, category,
\* producer); producer "" is the omitted producer
CallCheckDuplicate(strain_name, harvest_date, package_date, category, producer, fail) ==
  /\ last' = Returned("check_strain_duplicate",
                      [name |-> strain_name, harvest |-> harvest_date,
                       package |-> package_date, category |-> category,
                       producer |-> producer],
                      check_strain_duplicate(strains, strain_name, harvest_date,
                                             package_date, category, producer, fail).res,
                      fail = 0)
  /\ UNCHANGED <<botVars, strains, ratings, submissions, cache, waiters, lockHolder, pc, snap,
                 flow, call, loc, nOps, producerVars, timeVars>>

\* get_all_approved_strains(category), the cache empty:
\* `cached_operation(...) or []`
CallGetAllApproved(category, fail) ==
  /\ last' = Returned("get_all_approved_strains", [category |-> category],
                      IF fail = 0 THEN Rows(<<>>)
                      ELSE get_all_approved_strains(strains, category),
                      fail = 0)
  /\ UNCHANGED <<botVars, strains, ratings, submissions, cache, waiters, lockHolder, pc, snap,
                 flow, call, loc, nOps, producerVars, timeVars>>

\* approve_strain, rename_strain and add_rating called by the commands
StoreCall(m, fail) ==
  /\ nOps < MaxStoreOps
  /\ nOps' = nOps + 1
  /\ LET out == CASE m.kind = "approve_strain" ->
                       [ratings |-> ratings] @@ approve_strain(strains, m.identifier, fail)
                  [] m.kind = "rename_strain" ->
                       [ratings |-> ratings]
                         @@ rename_strain(strains, m.identifier, m.name, fail)
                  [] m.kind = "add_rating" ->
                       add_rating_operation(strains, ratings, m.identifier, m.user,
                                            m.value, NoCategory, fail)
     IN /\ strains' = out.strains
        /\ ratings' = out.ratings
        /\ last' = Returned(m.kind, m, out.res, out.err)
  /\ UNCHANGED <<botVars, submissions, cache, waiters, lockHolder, pc, snap, flow, call, loc,
                 producerVars, timeVars>>

\* the mutating calls: by Unique_ID, by name, by a Unique_ID two rows have
MutatingCalls ==
  {[kind |-> "approve_strain", identifier |-> i] : i \in {"0000000F", "blueberry"}}
    \cup {[kind |-> "rename_strain", identifier |-> i, name |-> N_O_G]
            : i \in {"a1b2c3d4", "og", "Blue*", "0000000C"}}
    \cup {[kind |-> "add_rating", identifier |-> i, user |-> 2, value |-> 3]
            : i \in {"0000000C", "blueberry", "og", "a1b2c3d4"}}

NextStore ==
  \/ \E identifier \in {"og", "a1b2c3d4", "0000000D", "Blue*", "Blue?", "blueberry"},
        category \in {NoCategory, "hash"}, fail \in FailPoints(1) :
       CallGetStrain(identifier, category, fail)
  \/ \E strain_name \in {N_O_G, "Blues"}, harvest_date \in {D_Harvest, D_Package},
        category \in {"Flower", "hash"}, producer \in {"", P_Fyta, "Unknown"} :
       CallCheckDuplicate(strain_name, harvest_date, D_Package, category, producer,
                          NoFail)
  \/ \E category \in {NoCategory, "Flower"}, fail \in FailPoints(1) :
       CallGetAllApproved(category, fail)
  \/ \E m \in MutatingCalls, fail \in 0..NoFail : StoreCall(m, fail)

SpecStore == InitStore /\ [][NextStore]_vars

\* ------------------------------------------------------- producer registry
\* SpecProducers: add_producer and remove_producer called one after
\* another, as the lock runs them, with names in several spellings.
MaxProducerOps == 4

PRODUCER_NAMES == {P_Fyta, "fyta", " Fyta ", "Q-Farms", ProducersHeader}

CallAddProducer(producer_name, fail) ==
  /\ nOps < MaxProducerOps
  /\ nOps' = nOps + 1
  /\ LET out == add_producer(producers, producer_name, fail)
     IN /\ producers' = out.producers
        /\ last' = Returned("add_producer", [name |-> producer_name], out.res, out.err)
  /\ UNCHANGED <<botVars, strains, ratings, submissions, cache, waiters, lockHolder, pc, snap,
                 flow, call, loc, valid_producers, timeVars>>

CallRemoveProducer(producer_name, fail) ==
  /\ nOps < MaxProducerOps
  /\ nOps' = nOps + 1
  /\ LET out == remove_producer(producers, producer_name, fail)
     IN /\ producers' = out.producers
        /\ last' = Returned("remove_producer", [name |-> producer_name], out.res,
                            out.err)
  /\ UNCHANGED <<botVars, strains, ratings, submissions, cache, waiters, lockHolder, pc, snap,
                 flow, call, loc, valid_producers, timeVars>>

NextProducers ==
  \/ \E producer_name \in PRODUCER_NAMES, fail \in FailPoints(1) :
       CallAddProducer(producer_name, fail)
  \/ \E producer_name \in PRODUCER_NAMES, fail \in FailPoints(1) :
       CallRemoveProducer(producer_name, fail)

SpecProducers == InitLock /\ [][NextProducers]_vars

\* ------------------------------------------------------------ User_ID cells
\* SpecUserId: _format_user_id_for_sheets and _extract_user_id_from_sheets
\* applied to user ids and to the texts a User_ID cell can hold.
MaxUserId == 60
\* characters of a cell text
MaxCellLen == 3

CellChars == {"'", "0", "1", "-", " ", "_", "a"}
CELLS == UNION {[1..n -> CellChars] : n \in 0..MaxCellLen}

\* str.lstrip("'")
RECURSIVE lstrip_marker(_)
lstrip_marker(s) == IF s # <<>> /\ Head(s) = "'" THEN lstrip_marker(Tail(s)) ELSE s

\* int(s) for a str: blanks around, one sign, digits with single
\* underscores between them; ok FALSE is ValueError
py_int(s) ==
  LET t == Strip(s)
      signed == t # <<>> /\ Head(t) \in {"-", "+"}
      body == IF signed THEN Tail(t) ELSE t
      ok == /\ body # <<>>
            /\ \A i \in DOMAIN body : body[i] \in Digits \cup {"_"}
            /\ body[1] # "_" /\ body[Len(body)] # "_"
            /\ \A i \in 1..(Len(body) - 1) : ~(body[i] = "_" /\ body[i + 1] = "_")
      IsDigit(c) == c \in Digits
      n == NumVal(SelectSeq(body, IsDigit))
  IN [ok |-> ok, v |-> IF ~ok THEN 0 ELSE IF signed /\ Head(t) = "-" THEN -n ELSE n]

\* a decoding that parses the cell text as it stands
extract_user_id_unstripped(user_id_str) ==
  LET parsed == py_int(user_id_str)
  IN IF parsed.ok THEN parsed.v ELSE 0

\* _extract_user_id_from_sheets: ValueError is caught and gives 0
extract_user_id_from_sheets(user_id_str) ==
  LET clean_id == lstrip_marker(user_id_str)
      parsed == py_int(clean_id)
  IN IF parsed.ok THEN parsed.v ELSE 0

IntRes(n) == [tag |-> "int", n |-> n]

\* a user id is written to a cell and read back
FormatExtract(user_id) ==
  /\ last' = Returned("format_extract", [user |-> user_id],
                      IntRes(extract_user_id_from_sheets(
                               format_user_id_for_sheets(user_id))),
                      FALSE)
  /\ UNCHANGED <<botVars, strains, ratings, submissions, cache, waiters, lockHolder, pc, snap,
                 flow, call, loc, nOps, producerVars, timeVars>>

\* a cell text is read
Extract(cell) ==
  /\ last' = Returned("extract_user_id", [cell |-> cell],
                      IntRes(extract_user_id_from_sheets(cell)), FALSE)
  /\ UNCHANGED <<botVars, strains, ratings, submissions, cache, waiters, lockHolder, pc, snap,
                 flow, call, loc, nOps, producerVars, timeVars>>

NextUserId ==
  \/ \E user_id \in (-MaxUserId)..MaxUserId : FormatExtract(user_id)
  \/ \E cell \in CELLS \cup {DecStr(n) : n \in 0..MaxUserId} : Extract(cell)

SpecUserId == Init /\ [][NextUserId]_vars

\* --------------------------------------------------- AdvancedRateLimiter
\* SpecWindow: direct calls of check_user_limit with one limit and one
\* window.  SpecQuota: the rate-limit checks that on_submit and rate_strain
\* make before anything else, on the user's one timestamp list.

\* calls of check_user_limit
MaxChecks == 5

\* values of RATE_LIMIT_PER_USER and RATE_LIMIT_WINDOW (seconds) in the
\* bot's environment
LIMITS == {1, DefaultLimit}
WINDOWS == {DefaultWindow, 120}

\* a limiter that drops a timestamp only when it is older than the window
check_user_limit_closed(user_calls, t, limit, window) ==
  LET kept == SelectSeq(user_calls, LAMBDA c : t - c <= window)
  IN IF Len(kept) >= limit
     THEN [ok |-> FALSE, calls |-> kept]
     ELSE [ok |-> TRUE, calls |-> Append(kept, t)]

\* check_user_limit's body at time t on the user's list: the answer and
\* the list it leaves
check_user_limit(user_calls, t, limit, window) ==
  LET kept == SelectSeq(user_calls, LAMBDA c : t - c < window)
  IN IF Len(kept) >= limit
     THEN [ok |-> FALSE, calls |-> kept]
     ELSE [ok |-> TRUE, calls |-> Append(kept, t)]

\* `async with self._lock` around a body without an await: the lock is
\* free when the call starts and free again when it returns, so the call
\* is one step
CheckUserLimit(kind, user_id, limit, window) ==
  /\ nOps < MaxChecks
  /\ limiter_lock.holder = 0
  /\ nOps' = nOps + 1
  /\ LET c == check_user_limit(user_requests[user_id], now, limit, Seconds(window))
     IN /\ user_requests' = [user_requests EXCEPT ![user_id] = c.calls]
        /\ passed' = IF c.ok
                     THEN [passed EXCEPT ![user_id] = Append(@, now)]
                     ELSE passed
        /\ last' = [kind |-> kind,
                    req |-> [kind |-> kind, user |-> user_id, limit |-> limit,
                             window |-> window],
                    r |-> IF c.ok THEN "allowed" ELSE "limited",
                    id |-> "", err |-> FALSE, res |-> Bool(c.ok)]
  /\ UNCHANGED <<strains, ratings, submissions, cache, waiters, pc, flow, call,
                 loc, lockVars, producerVars, now, requests, admitted, config,
                 limiter_lock, status_update_lock, last_moderator_notification,
                 channel>>

\* the bot starts with some RATE_LIMIT_PER_USER and RATE_LIMIT_WINDOW
InitConfig ==
  /\ strains = <<LegacyItem>>
  /\ ratings = <<LegacyRating>>
  /\ submissions = <<LegacySubmission>>
  /\ InitHandlers(Tasks)
  /\ config \in [limit : LIMITS, window : WINDOWS]

NextWindow ==
  \/ \E u \in USERS :
       CheckUserLimit("check_user_limit", u, config.limit, config.window)
  \/ Tick(Seconds(30))

SpecWindow == InitConfig /\ [][NextWindow]_vars

\* on_submit passes Config.RATE_LIMIT_WINDOW
SubmitGate(u) ==
  CheckUserLimit("submit", u, config.limit, config.window)

\* rate_strain passes no window: check_user_limit's default applies
RateGate(u) ==
  CheckUserLimit("rate", u, config.limit, DefaultWindow)

NextQuota ==
  \/ \E u \in USERS : SubmitGate(u)
  \/ \E u \in USERS : RateGate(u)
  \/ Tick(Seconds(30))

SpecQuota == InitConfig /\ [][NextQuota]_vars

\* ---------------------------------------------- check_and_notify_moderators
\* SpecNotify: handlers that call check_and_notify_moderators (bot_stats,
\* and on_submit after a submission went through) next to callers of
\* approve_strain.  The moderator roles have members and the
\* status channel is set.  The call to get_pending_strains_count goes
\* through safe_operation like every store call; channel.send, the 30
\* minutes of asyncio.sleep and msg.delete() are awaits of their own.

\* self.notification_cooldown and the asyncio.sleep before msg.delete()
notification_cooldown == 3600
RetractDelay == 1800

\* datetime.now().timestamp() when the bot starts, and the clock's last
\* value in SpecNotify (seconds)
BootTime == 3600
MaxNotifySeconds == 7200

timestamp(t) == Seconds(BootTime) + t

\* the handlers of SpecNotify
NotifyTasks == 1..2

\* the store call of the other handlers: a moderator approves the pending
\* product
NotifyOthers == {[kind |-> "approve_strain", identifier |-> ID_E]}

IsNotify(t) == flow[t].kind = "notify"

\* len([record for record in records if record['Status'] == 'Pending'])
get_pending_strains_count(rows) ==
  Len(SelectSeq(rows, LAMBDA record : record.status = "Pending"))

\* `current_time - self.last_moderator_notification < self.notification_cooldown`
in_cooldown(current_time, last_notification) ==
  current_time - last_notification < Seconds(notification_cooldown)

\* a safe_operation that keeps the lock after the operation has returned
leave_lock_kept(t) == t

\* safe_operation leaves `async with self._lock`: the lock is free
leave_lock(t) == 0

NotifyReply(t, r) ==
  [kind |-> "notify", req |-> [kind |-> "notify", task |-> t], r |-> r,
   id |-> "", err |-> FALSE]

\* check_and_notify_moderators up to its first await: the cooldown check,
\* then get_pending_strains_count reaches `async with self._lock`
NotifyCall(t) ==
  /\ pc[t] = "idle"
  /\ nOps < MaxOps
  /\ now <= Seconds(MaxNotifySeconds - RetractDelay - RetractDelay)
  /\ nOps' = nOps + 1
  /\ IF in_cooldown(timestamp(now), last_moderator_notification)
     THEN /\ last' = NotifyReply(t, "cooldown")
          /\ UNCHANGED <<flow, pc, lockHolder, waiters>>
     ELSE /\ flow' = [flow EXCEPT ![t] =
                        [kind |-> "notify",
                         current_time |-> timestamp(now), pending_count |-> 0,
                         msg |-> 0, wake |-> 0]]
          /\ last' = NoReply
          /\ IF CanAcquire
             THEN /\ lockHolder' = t
                  /\ pc' = [pc EXCEPT ![t] = "inbody"]
                  /\ waiters' = waiters
             ELSE /\ lockHolder' = lockHolder
                  /\ pc' = [pc EXCEPT ![t] = "waiting"]
                  /\ waiters' = Append(waiters, t)
  /\ UNCHANGED <<botVars, strains, ratings, submissions, cache, snap, call, loc,
                 producerVars, timeVars>>

\* the operation of get_pending_strains_count on the executor; a store
\* error makes safe_operation return None, and `result or 0` is 0
NotifyCount(t, fail) ==
  /\ pc[t] = "inbody" /\ IsNotify(t)
  /\ flow' = [flow EXCEPT ![t].pending_count =
                IF fail = 0 THEN 0 ELSE get_pending_strains_count(strains)]
  /\ pc' = [pc EXCEPT ![t] = "ran"]
  /\ last' = [NoReply EXCEPT !.err = (fail = 0)]
  /\ UNCHANGED <<botVars, strains, ratings, submissions, cache, waiters, lockHolder,
                 snap, call, loc, nOps, producerVars, timeVars>>

\* the caller leaves safe_operation; `if pending_count > 0` decides whether
\* it goes on to channel.send
NotifyBranch(t) ==
  /\ pc[t] = "ran" /\ IsNotify(t)
  /\ lockHolder' = leave_lock(t)
  /\ IF flow[t].pending_count > 0
     THEN /\ pc' = [pc EXCEPT ![t] = "send"]
          /\ flow' = flow
          /\ last' = NoReply
     ELSE /\ pc' = [pc EXCEPT ![t] = "idle"]
          /\ flow' = [flow EXCEPT ![t] = NoFlow]
          /\ last' = NotifyReply(t, "none_pending")
  /\ UNCHANGED <<botVars, strains, ratings, submissions, cache, waiters, snap, call,
                 loc, nOps, producerVars, timeVars>>

\* `msg = await self.status_channel.send(...)`, then asyncio.sleep(1800)
\* starts
NotifySend(t) ==
  /\ pc[t] = "send"
  /\ channel' = Append(channel, [at |-> now, by |-> t, deleted |-> FALSE])
  /\ flow' = [flow EXCEPT ![t].msg = Len(channel) + 1,
                          ![t].wake = now + Seconds(RetractDelay)]
  /\ pc' = [pc EXCEPT ![t] = "sleep"]
  /\ last' = NotifyReply(t, "posted")
  /\ UNCHANGED <<strains, ratings, submissions, cache, waiters, lockVars, call, loc,
                 nOps, producerVars, timeVars, config, user_requests, passed,
                 limiter_lock, status_update_lock, last_moderator_notification>>

\* the sleep is over: msg.delete() goes through (or the message is gone
\* already), and only now last_moderator_notification is set, to the time
\* the call started
NotifyRetract(t) ==
  /\ pc[t] = "sleep"
  /\ now >= flow[t].wake
  /\ channel' = [channel EXCEPT ![flow[t].msg].deleted = TRUE]
  /\ last_moderator_notification' = flow[t].current_time
  /\ pc' = [pc EXCEPT ![t] = "idle"]
  /\ flow' = [flow EXCEPT ![t] = NoFlow]
  /\ last' = NotifyReply(t, "retracted")
  /\ UNCHANGED <<strains, ratings, submissions, cache, waiters, lockVars, call, loc,
                 nOps, producerVars, timeVars, config, user_requests, passed,
                 limiter_lock, status_update_lock>>

\* approve_strain's operation on the executor, which safe_operation runs
\* under the lock: get_all_records, then the update_cell of the Status
ApproveBody(t) ==
  /\ pc[t] = "inbody" /\ ~IsNotify(t)
  /\ LET out == approve_strain(strains, flow[t].identifier, NoFail)
     IN /\ strains' = out.strains
        /\ loc' = [loc EXCEPT ![t] = out.res]
  /\ pc' = [pc EXCEPT ![t] = "ran"]
  /\ last' = NoReply
  /\ UNCHANGED <<botVars, ratings, submissions, cache, waiters, lockVars, flow, call,
                 nOps, producerVars, timeVars>>

\* half an hour passes; the clock's last half hour is kept for the
\* handlers that have yet to send
PassTime ==
  /\ now < Seconds(MaxNotifySeconds)
  /\ \A t \in NotifyTasks :
       (IsNotify(t) /\ pc[t] # "sleep") =>
         now < Seconds(MaxNotifySeconds - RetractDelay)
  /\ now' = now + Seconds(RetractDelay)
  /\ UNCHANGED <<botVars, strains, ratings, submissions, cache, snap, flow, call, loc,
                 last, waiters, lockHolder, pc, nOps, producerVars, requests,
                 admitted>>

NextNotify ==
  \/ \E t \in NotifyTasks : NotifyCall(t)
  \/ \E t \in NotifyTasks, fail \in {0, NoFail} : NotifyCount(t, fail)
  \/ \E t \in NotifyTasks : NotifyBranch(t)
  \/ \E t \in NotifyTasks : NotifySend(t)
  \/ \E t \in NotifyTasks : NotifyRetract(t)
  \/ PassTime
  \/ \E t \in NotifyTasks, c \in NotifyOthers : LockCall(t, c)
  \/ \E t \in NotifyTasks : LockWake(t)
  \/ \E t \in NotifyTasks : ApproveBody(t)
  \/ \E t \in NotifyTasks : ~IsNotify(t) /\ LockRelease(t)

SpecNotify == InitLock /\ [][NextNotify]_vars

\* the event loop runs every handler whose await is done, every store call
\* and every Discord call returns, and time goes on
SpecNotifyFair ==
  /\ SpecNotify
  /\ WF_vars(PassTime)
  /\ \A t \in NotifyTasks :
       /\ WF_vars(LockWake(t))
       /\ WF_vars(\E fail \in {0, NoFail} : NotifyCount(t, fail))
       /\ WF_vars(NotifyBranch(t))
       /\ WF_vars(NotifySend(t))
       /\ WF_vars(NotifyRetract(t))
       /\ WF_vars(ApproveBody(t))
       /\ WF_vars(~IsNotify(t) /\ LockRelease(t))

\* --------------------------------------------------------- the three locks
\* SpecOrder: the handlers as the locks see them.  A handler is the list
\* of `async with` blocks it enters, in the order of its awaits: the
\* rate-limiter lock around check_user_limit, the store lock around every
\* safe_operation, and the status-update lock around the store calls of
\* update_status_messages.  What the operations do to the sheets is in
\* Spec and SpecLock; here a store call is the taking and the leaving of
\* the lock, and a handler may return after any call (refused by the
\* limiter, product not found, duplicate, store error).

\* the handlers of SpecOrder; handler t serves user t
OrderTasks == 1..2

Acq(lock) == [act |-> "acq", lock |-> lock]
Rel(lock) == [act |-> "rel", lock |-> lock]

\* a check_user_limit that makes a store call inside its lock
LimiterBlock_across_store ==
  <<Acq("limiter"), Acq("store"), Rel("store"), Rel("limiter")>>

\* `await bot.rate_limiter.check_user_limit(...)`
LimiterBlock == <<Acq("limiter"), Rel("limiter")>>

\* `await self.safe_operation(operation)`
StoreBlock == <<Acq("store"), Rel("store")>>

\* update_status_messages: `async with self.status_update_lock` around
\* get_top_strains_for_status, get_recent_ratings_for_status and
\* get_last_submissions (here: two of the store calls)
update_status_messages ==
  <<Acq("status")>> \o StoreBlock \o StoreBlock \o <<Rel("status")>>

\* the blocks a handler enters
Program(kind) ==
  CASE kind = "submit" ->
         \* check_user_limit, check_strain_duplicate, add_strain_submission,
         \* then get_pending_strains_count of check_and_notify_moderators
         LimiterBlock \o StoreBlock \o StoreBlock \o StoreBlock
    [] kind = "rate" ->
         \* check_user_limit, get_strain_by_identifier, add_rating
         LimiterBlock \o StoreBlock \o StoreBlock \o update_status_messages
    [] kind = "approve" ->
         \* get_strain_by_identifier, approve_strain
         StoreBlock \o StoreBlock \o update_status_messages
    [] kind = "rename" ->
         \* get_strain_by_identifier, rename_strain
         StoreBlock \o StoreBlock \o update_status_messages
    [] kind = "refresh_status" ->
         update_status_messages

ORDER_KINDS == {"submit", "rate", "approve", "rename", "refresh_status"}

Holder(lock) ==
  CASE lock = "store" -> lockHolder
    [] lock = "status" -> status_update_lock.holder
    [] lock = "limiter" -> limiter_lock.holder

Waiting(lock) ==
  CASE lock = "store" -> waiters
    [] lock = "status" -> status_update_lock.waiters
    [] lock = "limiter" -> limiter_lock.waiters

\* the lock gets holder h and waiters w; the other locks stay
SetLock(lock, h, w) ==
  /\ lockHolder' = IF lock = "store" THEN h ELSE lockHolder
  /\ waiters' = IF lock = "store" THEN w ELSE waiters
  /\ status_update_lock' = IF lock = "status" THEN [holder |-> h, waiters |-> w]
                           ELSE status_update_lock
  /\ limiter_lock' = IF lock = "limiter" THEN [holder |-> h, waiters |-> w]
                     ELSE limiter_lock

\* the block handler t is about to enter or to leave
Instr(t) == Program(flow[t].kind)[flow[t].ip]

Running(t) == pc[t] = "inbody" /\ flow[t].kind \in ORDER_KINDS

\* handler t goes on to its next block, or returns after its last one
Advance(t, returns) ==
  IF returns \/ flow[t].ip = Len(Program(flow[t].kind))
  THEN /\ flow' = [flow EXCEPT ![t] = NoFlow]
       /\ pc' = [pc EXCEPT ![t] = "idle"]
  ELSE /\ flow' = [flow EXCEPT ![t].ip = @ + 1]
       /\ pc' = [pc EXCEPT ![t] = "inbody"]

\* a command arrives
StartTask(t, kind) ==
  /\ pc[t] = "idle"
  /\ nOps < MaxOps
  /\ nOps' = nOps + 1
  /\ flow' = [flow EXCEPT ![t] = [kind |-> kind, ip |-> 1]]
  /\ pc' = [pc EXCEPT ![t] = "inbody"]
  /\ last' = NoReply
  /\ UNCHANGED <<botVars, strains, ratings, submissions, cache, waiters, lockVars,
                 call, loc, producerVars, timeVars>>

\* `async with lock`: asyncio.Lock.acquire takes a free lock that nobody
\* waits for, and queues the caller otherwise
Acquire(t) ==
  /\ Running(t) /\ Instr(t).act = "acq"
  /\ LET lock == Instr(t).lock
     IN IF Holder(lock) = 0 /\ Waiting(lock) = <<>>
        THEN /\ SetLock(lock, t, <<>>)
             /\ Advance(t, FALSE)
        ELSE /\ SetLock(lock, Holder(lock), Append(Waiting(lock), t))
             /\ pc' = [pc EXCEPT ![t] = "waiting"]
             /\ flow' = flow
  /\ last' = NoReply
  /\ UNCHANGED <<strains, ratings, submissions, cache, snap, call, loc, nOps,
                 producerVars, timeVars, config, user_requests, passed,
                 last_moderator_notification, channel>>

\* release() has woken the longest waiter, which takes the lock
WakeUp(t) ==
  /\ pc[t] = "waiting" /\ flow[t].kind \in ORDER_KINDS
  /\ LET lock == Instr(t).lock
     IN /\ Holder(lock) = 0
        /\ Waiting(lock) # <<>> /\ wake_up_first(Waiting(lock)) = t
        /\ SetLock(lock, t, Tail(Waiting(lock)))
  /\ Advance(t, FALSE)
  /\ last' = NoReply
  /\ UNCHANGED <<strains, ratings, submissions, cache, snap, call, loc, nOps,
                 producerVars, timeVars, config, user_requests, passed,
                 last_moderator_notification, channel>>

\* the block's body is done and the handler leaves it.  The body of the
\* limiter's block is check_user_limit's, and False ends the handler; a
\* store call's result may end the handler, outside update_status_messages
Leave(t, returns) ==
  /\ Running(t) /\ Instr(t).act = "rel"
  /\ LET lock == Instr(t).lock
         c == check_user_limit(user_requests[t], now, config.limit,
                               Seconds(config.window))
     IN /\ Holder(lock) = t
        /\ SetLock(lock, 0, Waiting(lock))
        /\ IF lock = "limiter"
           THEN /\ user_requests' = [user_requests EXCEPT ![t] = c.calls]
                /\ passed' = IF c.ok THEN [passed EXCEPT ![t] = Append(@, now)]
                             ELSE passed
                /\ returns = ~c.ok
           ELSE /\ UNCHANGED <<user_requests, passed>>
                /\ returns => (lock = "store" /\ status_update_lock.holder # t)
        /\ Advance(t, returns)
  /\ last' = NoReply
  /\ UNCHANGED <<strains, ratings, submissions, cache, snap, call, loc, nOps,
                 producerVars, timeVars, config, last_moderator_notification,
                 channel>>

NextOrder ==
  \/ \E t \in OrderTasks, kind \in ORDER_KINDS : StartTask(t, kind)
  \/ \E t \in OrderTasks : Acquire(t)
  \/ \E t \in OrderTasks : WakeUp(t)
  \/ \E t \in OrderTasks, returns \in BOOLEAN : Leave(t, returns)

SpecOrder == InitLock /\ [][NextOrder]_vars

\* the event loop runs every handler whose await is done, and every block's
\* body returns
SpecOrderFair ==
  /\ SpecOrder
  /\ \A t \in OrderTasks :
       /\ WF_vars(Acquire(t))
       /\ WF_vars(WakeUp(t))
       /\ WF_vars(\E returns \in BOOLEAN : Leave(t, returns))

\* =============================================================== properties
\* handler t's store call c is the one this step runs
Ran(t, c) == AtHead(t, c) /\ call'[t] # c

\* the user id a User_ID cell holds, in either stored form
CellUser(cell) == IF cell # <<>> /\ Head(cell) = "'" THEN Tail(cell) ELSE cell

MinOf(S) == CHOOSE i \in S : \A j \in S : i <= j

\* the uniqueness tuple of an Items row and of a submission request
TupleOf(r) == <<normalize_strain_name(Chars(r.name)), r.harvest, r.package,
                r.category, r.producer>>
RequestTuple(fl) == <<normalize_strain_name(Chars(fl.name)), fl.harvest, fl.package,
                      Text(Lower(Chars(fl.category))), sanitize_producer(fl.producer)>>
StoredAs(fl) == {i \in DOMAIN strains : TupleOf(strains[i]) = RequestTuple(fl)}

\* ----------------------------------------------------------------------- C1
OneRowPerPair(rats) ==
  \A j, k \in DOMAIN rats :
    (rats[j].item = rats[k].item /\ CellUser(rats[j].user) = CellUser(rats[k].user))
      => j = k

\* C1: the Ratings sheet never holds two rows for one (item id, user id)
\* pair, whichever form the User_ID cells have; and an add_rating call by a
\* user who already has a row for the item the identifier resolves to, in
\* the apostrophe form or in the plain form, appends no row and returns
\* failure.
C1_OneRatingPerUser ==
  [][ /\ OneRowPerPair(ratings)
      /\ OneRowPerPair(ratings')
      /\ \A t \in Tasks :
           (/\ Ran(t, "add_rating")
            /\ LET i == rating_strain_idx(strains, flow[t].identifier, flow[t].category)
               IN /\ i # 0
                  /\ \E k \in DOMAIN ratings :
                       /\ ratings[k].item = strains[i].id
                       /\ CellUser(ratings[k].user) = DecStr(flow[t].user))
             => /\ ratings' = ratings
                /\ last'.kind = "rate"
                /\ last'.r = "failed" ]_vars

\* a user whose only row for the item is in the plain form was just refused
\* a second rating, while the sheet also holds a row in the apostrophe form
C1_Witness ==
  /\ last.kind = "rate" /\ last.r = "failed" /\ ~last.err
  /\ \E k \in DOMAIN ratings :
       /\ ratings[k].user = DecStr(last.req.user)
       /\ \E i \in DOMAIN strains :
            /\ strains[i].id = ratings[k].item
            /\ i = rating_strain_idx(strains, last.req.identifier, last.req.category)
  /\ \E k \in DOMAIN ratings : Head(ratings[k].user) = "'"

\* ----------------------------------------------------------------------- C2
\* C2: for every Items row, Total_Ratings is the number of Ratings rows with
\* its Unique_ID and Average_Rating is their mean rounded to two decimals
\* (both 0 when there are none).
C2_AggregatesMatch ==
  \A i \in DOMAIN strains :
    LET n == CountRatings(ratings, strains[i].id)
    IN /\ strains[i].total = n
       /\ strains[i].avg = IF n = 0 THEN 0
                           ELSE round2(SumRatings(ratings, strains[i].id), n)

\* ----------------------------------------------------------------------- C3
Matching(identifier) ==
  {i \in DOMAIN strains :
     \/ Upper(Chars(strains[i].id)) = Upper(Chars(identifier))
     \/ Lower(Chars(strains[i].name)) = Lower(Chars(identifier))}
PendingMatching(identifier) ==
  {i \in Matching(identifier) : strains[i].status = "Pending"}

\* C3: an approve_strain call whose identifier matches no row, or matches
\* only rows that are already Approved, returns failure and changes nothing;
\* a call whose identifier matches a Pending row, the store raising no error,
\* sets that row's Status to Approved, changes nothing else and returns
\* success; a call returns success only by flipping a Pending row, so of
\* concurrent calls on one Pending row exactly one succeeds.
C3_ApproveOnce ==
  [][ \A t \in Tasks :
        Ran(t, "approve_strain") =>
          LET P == PendingMatching(flow[t].identifier)
          IN /\ last'.kind \in {"approve", "button"}
             /\ last'.r \in {"approved", "failed"}
             /\ P = {} => (last'.r = "failed" /\ strains' = strains)
             /\ (P # {} /\ ~last'.err) =>
                  /\ last'.r = "approved"
                  /\ strains' = [strains EXCEPT ![MinOf(P)].status = "Approved"]
             /\ last'.r = "approved" => P # {}
             /\ last'.r = "failed" => strains' = strains ]_vars

\* one of two concurrent approve_strain calls on the same Pending row has
\* just succeeded and the other is still queued
C3_Witness ==
  /\ last.kind \in {"approve", "button"} /\ last.r = "approved"
  /\ \E t \in Tasks :
       /\ pc[t] = "waiting" /\ call[t] = "approve_strain"
       /\ Matching(flow[t].identifier) = Matching(last.req.identifier)
       /\ PendingMatching(flow[t].identifier) = {}

\* ----------------------------------------------------------------------- C4
\* C4: no step removes an Items row or changes its Unique_ID, a row that is
\* Approved stays Approved, the only Status change is Pending to Approved,
\* and a row that a step adds is Pending.
C4_StatusMonotone ==
  [][ /\ Len(strains') >= Len(strains)
      /\ \A i \in DOMAIN strains :
           /\ strains'[i].id = strains[i].id
           /\ strains'[i].status \in {strains[i].status, "Approved"}
      /\ \A i \in DOMAIN strains' \ DOMAIN strains :
           strains'[i].status = "Pending" ]_vars

\* a product that was submitted and then approved is still there after the
\* producer it names was removed
C4_Witness ==
  /\ producers = <<>>
  /\ \E i \in DOMAIN strains :
       /\ strains[i].status = "Approved" /\ strains[i].total = 0
       /\ strains[i].producer = P_Fyta

\* ----------------------------------------------------------------------- C5
\* C5: when the duplicate check of a submission runs for a tuple (normalized
\* name, harvest date, package date, category, producer) that an Items row
\* already holds, the submission ends there, in the duplicate reply that
\* carries the Unique_ID of that row, and no sheet changes.
C5_DuplicateRefused ==
  [][ \A t \in Tasks :
        (Ran(t, "check_strain_duplicate") /\ StoredAs(flow[t]) # {}) =>
          /\ last'.kind = "submit"
          /\ last'.r = "duplicate"
          /\ last'.id = strains[MinOf(StoredAs(flow[t]))].id
          /\ strains' = strains
          /\ submissions' = submissions ]_vars

\* ----------------------------------------------------------------------- C6
\* C6: no two Items rows share the tuple (normalized name, harvest date,
\* package date, category, producer).
C6_NoDuplicateTuples ==
  \A i, j \in DOMAIN strains :
    TupleOf(strains[i]) = TupleOf(strains[j]) => i = j

\* ----------------------------------------------------------------------- C7
\* the row /rate_strain resolves the request to is Pending
ResolvesToPending(fl) ==
  LET i == get_strain_idx(strains, fl.identifier, fl.category)
  IN i # 0 /\ strains[i].status = "Pending"

\* C7: a /rate_strain request whose identifier resolves to a Pending row
\* ends at the lookup without a rating: the Ratings sheet and the Items
\* sheet stay as they were, the reply is "not approved" whenever the lookup
\* raised no error, and the request never gets as far as add_rating; and
\* an add_rating call whose identifier has come to resolve to a Pending row
\* since the lookup returns failure and writes nothing.
C7_PendingNotRated ==
  [][ /\ \A t \in Tasks :
           (/\ Ran(t, "get_strain_by_identifier")
            /\ flow[t].kind = "rate"
            /\ ResolvesToPending(flow[t]))
             => /\ ratings' = ratings
                /\ strains' = strains
                /\ last'.kind = "rate"
                /\ last'.r \in {"not_approved", "not_found"}
                /\ ~last'.err => last'.r = "not_approved"
      /\ \A t \in Tasks :
           (flow'[t] # NoFlow /\ flow'[t].kind = "rate" /\ call'[t] = "add_rating"
              /\ call[t] # "add_rating")
             => ~ResolvesToPending(flow'[t])
      /\ \A t \in Tasks :
           (/\ Ran(t, "add_rating")
            /\ LET i == rating_strain_idx(strains, flow[t].identifier, flow[t].category)
               IN i # 0 /\ strains[i].status = "Pending")
             => /\ ratings' = ratings
                /\ strains' = strains
                /\ last'.kind = "rate"
                /\ last'.r = "failed" ]_vars

\* a rating of a product that is still Pending was just answered with "not
\* approved"
C7_Witness ==
  /\ last.kind = "rate" /\ last.r = "not_approved" /\ ~last.err
  /\ ResolvesToPending(last.req)
  /\ ratings = <<>>

\* ----------------------------------------------------------------------- C8
\* C8: no two Items rows have the same Unique_ID.
C8_UniqueIds ==
  \A i, j \in DOMAIN strains : strains[i].id = strains[j].id => i = j

\* ----------------------------------------------------------------------- C9
\* C9: at most one caller of safe_operation is inside the operation body,
\* it is the holder of the lock, and between the body's reads and its
\* writes the sheets are as it read them: no other body wrote in between.
C9_MutualExclusion ==
  /\ \A t, u \in LockTasks : (InBody(t) /\ InBody(u)) => t = u
  /\ \A t \in LockTasks : InBody(t) => lockHolder = t
  /\ \A t \in LockTasks :
       pc[t] = "read" => snap[t] = [strains |-> strains, ratings |-> ratings]

\* a body is between its reads and its writes while another caller waits
\* for the lock, after an earlier body appended a rating
C9_Witness ==
  /\ Len(ratings) > 1
  /\ \E t, u \in LockTasks : pc[t] = "read" /\ pc[u] = "waiting"

\* ---------------------------------------------------------------------- C10
\* C10: a caller enters the operation body only when no other caller is in
\* it and every caller still waiting for the lock arrived at `async with
\* self._lock` after it did: bodies run one after the other in arrival order.
C10_Fifo ==
  [][ \A t \in LockTasks :
        (pc'[t] = "inbody" /\ pc[t] # "inbody") =>
          /\ \A u \in LockTasks \ {t} : ~InBody(u) /\ pc'[u] \notin {"inbody", "read", "ran"}
          /\ \A u \in LockTasks \ {t} :
               pc'[u] = "waiting" => flow'[u].seq > flow'[t].seq ]_vars

\* the second caller to arrive has entered the body after the first left
\* it, and the third still waits
C10_Witness ==
  /\ nOps = MaxOps
  /\ waiters # <<>>
  /\ \E t \in LockTasks : pc[t] = "inbody" /\ flow[t].seq = 2

\* ---------------------------------------------------------------------- C11
\* None, False or an empty list
Neutral(r) == r \in {None, Bool(FALSE), List({})}

\* the values store method c of handler t returns when its body raises
RaisedResults(t, c) ==
  LET fl == flow[t]
  IN CASE c = "check_strain_duplicate" ->
            {check_strain_duplicate(strains, fl.name, fl.harvest, fl.package,
                                    fl.category, fl.producer, 0).res}
       [] c = "add_strain_submission" ->
            {add_strain_submission(strains, submissions, fl.name, fl.harvest,
                                   fl.package, fl.category, fl.producer, fl.user,
                                   ID_A, fail).res : fail \in 0..1}
       [] c \in {"get_strain_by_identifier", "get_updated_strain"} ->
            {get_strain_by_identifier(strains, fl.identifier, fl.category, 0).res}
       [] c = "add_rating" ->
            {add_rating_operation(strains, ratings, fl.identifier, fl.user,
                                  fl.value, fl.category, fail).res : fail \in 0..2}
       [] c = "approve_strain" -> {approve_strain(strains, fl.identifier, 0).res}
       [] c = "rename_strain" ->
            {rename_strain(strains, fl.identifier, fl.name, 0).res}
       [] c = "add_producer" -> {add_producer(producers, fl.name, 0).res}
       [] c = "remove_producer" -> {remove_producer(producers, fl.name, 0).res}
       [] c = "get_all_producers" -> {get_all_producers(producers, 0).res}

StoreCalls ==
  {"check_strain_duplicate", "add_strain_submission", "get_strain_by_identifier",
   "get_updated_strain", "add_rating", "approve_strain", "rename_strain",
   "add_producer", "remove_producer", "get_all_producers"}

\* C11: a store call during which the backing store raised returns None,
\* False or an empty list to the handler, and it leaves the lock: the
\* handler that waited behind it is the next one the lock admits.
C11_NeutralOnFailure ==
  [][ \A t \in Tasks, c \in StoreCalls :
        (Ran(t, c) /\ last'.err) =>
          /\ \A r \in RaisedResults(t, c) : Neutral(r)
          /\ Len(waiters) > 1 => Head(waiters') = waiters[2] ]_vars

\* ---------------------------------------------------------------------- C12
\* C12: in any rolling window of time_window seconds at most max_requests
\* calls of wait_if_needed are admitted: the call admitted max_requests
\* calls after another one is admitted at least time_window later.
C12_QuotaPerWindow ==
  \A i \in DOMAIN admitted :
    i + max_requests \in DOMAIN admitted =>
      admitted[i + max_requests] - admitted[i] >= time_window

\* ---------------------------------------------------------------------- C13
\* the call admitted last slept in wait_if_needed
SleptLast ==
  /\ requests # <<>> /\ admitted # <<>>
  /\ admitted[Len(admitted)] > requests[Len(requests)]

\* C13: wait_if_needed returns for every caller after sleeping at most
\* time_window plus the 0.1 s margin, and every call queued on
\* safe_operation is admitted by the limiter and completes.
C13_BoundedSleepAlwaysAdmits ==
  /\ [][ \A t \in LockTasks :
           (pc[t] = "inbody" /\ pc'[t] # "inbody") =>
             /\ pc'[t] = "ran"
             /\ Len(admitted') = Len(admitted) + 1
             /\ now' - now <= time_window + SleepMargin ]_vars
  /\ \A t \in LockTasks : (pc[t] = "waiting") ~> (pc[t] = "ran")
  /\ \A t \in LockTasks : (pc[t] = "ran") ~> (pc[t] = "idle")

\* a caller is in its operation after a sleep, and another one is queued
C13_Witness ==
  /\ SleptLast
  /\ \E t \in LockTasks : pc[t] = "ran" /\ lockHolder = t
  /\ waiters # <<>>

\* ---------------------------------------------------------------------- C14
\* the step is a successful approve_strain, add_rating or rename_strain
MutationDone ==
  /\ last'.kind \in {"approve_strain", "add_rating", "rename_strain"}
  /\ last'.r = "ok"

\* the read whose result a cache entry holds
ReadOf(e) == CHOOSE r \in Reads : ReadPlan(r, <<>>).key = entry_key(e)

\* C14: a successful approve_strain, add_rating or rename_strain leaves no
\* entry in the cache that a read would still return and whose read the
\* mutation changed: get_strain_by_identifier, get_top_strains_for_status
\* and get_all_approved_strains then return what the sheet holds.
C14_MutationInvalidates ==
  [][ MutationDone =>
        \A e \in cache' :
          Fresh(e, ReadPlan(ReadOf(e), strains).cache_duration) =>
            ReadPlan(ReadOf(e), strains').res = ReadPlan(ReadOf(e), strains).res ]_vars

\* ---------------------------------------------------------------------- C15
\* the step is the cached read r
ReadDone(r) == nOps' = nOps + 1 /\ last'.kind = r.kind /\ last'.req = r

\* the entries the cache holds for read r
EntriesOf(r) == {e \in cache : entry_key(e) = ReadPlan(r, strains).key}

\* C15: a value a cached read returns from the cache is the value of an
\* entry stored less than cache_duration earlier, 60 s for
\* get_strain_by_identifier and 120 s for get_top_strains_for_status and
\* get_all_approved_strains; when the entry's age has reached
\* cache_duration the read goes to the store and returns what the sheet
\* holds (nothing when the store fails).
C15_BoundedStaleness ==
  [][ \A r \in Reads :
        ReadDone(r) =>
          LET ttl == IF r.kind = "get_strain_by_identifier"
                     THEN Seconds(60) ELSE Seconds(120)
          IN /\ last'.r = "hit" =>
                  \E e \in EntriesOf(r) : e.val = last'.res /\ now - e.t < ttl
             /\ (\A e \in EntriesOf(r) : now - e.t >= ttl) =>
                  /\ last'.r = "miss"
                  /\ last'.res = IF last'.err THEN None ELSE ReadPlan(r, strains).res ]_vars

\* get_all_approved_strains answered from an entry a minute old or older
C15_Witness ==
  /\ last.kind = "get_all_approved_strains"
  /\ last.r = "hit"
  /\ \E e \in EntriesOf(last.req) : e.val = last.res /\ now - e.t >= Seconds(60)

\* ---------------------------------------------------------------------- C16
\* dates that are no DD-MM-YYYY date: the 31st of February, a date written
\* year first, an empty cell
MalformedDates == {"31-02-2024", "2024-12-01", ""}

\* the step is a call of add_strain_submission with such a date or with a
\* category that is none of flower, hash and rosin in any case
BadSubmission(l) ==
  /\ l.kind = "add_strain_submission"
  /\ \/ l.req.harvest \in MalformedDates
     \/ l.req.package \in MalformedDates
     \/ l.req.category = "edible"

C17_SubmissionPerItem ==
  /\ [](/\ \A i \in DOMAIN strains :
             Cardinality({j \in DOMAIN submissions :
                            submissions[j].id = strains[i].id}) = 1
        /\ \A j \in DOMAIN submissions :
             \E i \in DOMAIN strains : strains[i].id = submissions[j].id)
  /\ [][ submissions' # submissions =>
           \E t \in Tasks : Ran(t, "add_strain_submission") ]_vars

\* ---------------------------------------------------------------------- C18
\* C18: the submission flow tells a storage failure apart from a duplicate
\* and from success: when the store raises in check_strain_duplicate or in
\* add_strain_submission the flow ends with the failure reply, and the
\* duplicate reply, the success reply and the failure reply are given for
\* their own reason only.
C18_SubmitOutcomesDistinct ==
  [][ /\ \A t \in Tasks :
           (Ran(t, "check_strain_duplicate") /\ last'.err) =>
             (last'.kind = "submit" /\ last'.r = "failed")
      /\ last'.kind = "submit" =>
           /\ last'.r \in {"duplicate", "submitted", "failed"}
           /\ last'.r = "failed" <=> last'.err ]_vars

\* ---------------------------------------------------------------------- C19
\* C19: the rating flow gives each of its replies for one reason: "not
\* found", "not approved" and the reply of an add_rating that returned
\* False ("you may have already rated") are not the reply to a failure of
\* the store.
C19_RatingOutcomesDistinct ==
  [][ last'.kind = "rate" =>
        /\ last'.r \in {"not_found", "not_approved", "failed", "rated"}
        /\ last'.r \in {"not_found", "not_approved", "failed"} => ~last'.err ]_vars

\* ---------------------------------------------------------------------- C20
\* the cache holds no entry that the mutation of kind c has to clear
Invalidated(c, kind) ==
  \A e \in c :
    /\ ~StartsWith(entry_key(e), K_strain_)
    /\ ~StartsWith(entry_key(e), K_top_strains)
    /\ kind = "add_rating" => ~StartsWith(entry_key(e), K_all_approved_strains)

\* C20: a handler's steps come in the order duplicate check, store
\* mutation, cache invalidation, reply with its notification or status
\* update.  on_submit goes on to add_strain_submission only when
\* check_strain_duplicate has run and found no duplicate; /rate_strain,
\* /approve_strain and /rename_strain change the sheet only for a product
\* their lookup found; the step of a mutation that returned success leaves
\* the cache cleared; and the success reply comes with or after that step.
C20_StepOrder ==
  [][ \A t \in Tasks :
        /\ (Ran(t, "check_strain_duplicate") /\ call'[t] = "add_strain_submission") =>
             /\ ~last'.err
             /\ StoredAs(flow[t]) = {}
        /\ (Ran(t, "add_strain_submission") /\ strains' # strains) =>
             (last'.kind = "submit" /\ (last'.r = "submitted" \/ last'.err))
        /\ (Ran(t, "add_rating") /\ ratings' # ratings) =>
             /\ Truthy(loc[t]) /\ is_approved(loc[t].v)
             /\ call'[t] = "get_updated_strain" => Invalidated(cache', "add_rating")
        /\ (Ran(t, "get_updated_strain") /\ last'.r = "rated") =>
             (strains' = strains /\ ratings' = ratings)
        /\ \A c \in {"approve_strain", "rename_strain"} :
             (Ran(t, c) /\ strains' # strains) =>
               /\ Invalidated(cache', c)
               /\ last'.r \in {"approved", "renamed"} ]_vars

\* ---------------------------------------------------------------------- C21
\* the rows of the sheet that a lookup with the category filter looks at
RowsIn(category) ==
  {i \in DOMAIN strains :
     category = NoCategory
       \/ Lower(Chars(strains[i].category)) = Lower(Chars(category))}

\* the row a lookup has to return: the first row with the id, else the
\* first row with the name, else the first row whose name the pattern or
\* the text is found in (0: none)
Resolved(identifier, category) ==
  LET ident == Lower(Chars(identifier))
      ids == {i \in RowsIn(category) : Lower(Chars(strains[i].id)) = ident}
      names == {i \in RowsIn(category) : Lower(Chars(strains[i].name)) = ident}
      found == {i \in RowsIn(category) :
                  IF \E k \in DOMAIN ident : ident[k] \in {"*", "?"}
                  THEN RegexSearch(ident, Lower(Chars(strains[i].name)))
                  ELSE Contains(Lower(Chars(strains[i].name)), ident)}
  IN IF ids # {} THEN MinOf(ids)
     ELSE IF names # {} THEN MinOf(names)
     ELSE IF found # {} THEN MinOf(found) ELSE 0

\* C21: get_strain_by_identifier returns, of the rows in the category, the
\* first one whose Unique_ID is the identifier without regard to case, also
\* when an earlier row has the identifier as its name; if there is none,
\* the first one whose name is the identifier; if there is none, the first
\* one the wildcard pattern or the substring is found in; and None, with no
\* error, when no row matches.
C21_LookupPriority ==
  [][ (last'.kind = "get_strain_by_identifier" /\ ~last'.err) =>
        LET i == Resolved(last'.req.identifier, last'.req.category)
        IN last'.res = IF i = 0 THEN None ELSE Rec(strains[i]) ]_vars

\* the lookup of "a1b2c3d4" returned the second row, which has that id,
\* and not the first row, which has it as its name
C21_Witness ==
  /\ last.kind = "get_strain_by_identifier"
  /\ last.req.identifier = "a1b2c3d4"
  /\ strains = <<IdNamedItem, LegacyItem>>
  /\ last.res = Rec(LegacyItem)

\* ---------------------------------------------------------------------- C22
\* the pattern p matches the whole of s: * stands for any run of
\* characters, ? for exactly one
RECURSIVE WildMatch(_, _)
WildMatch(p, s) ==
  IF p = <<>> THEN s = <<>>
  ELSE IF Head(p) = "*"
       THEN WildMatch(Tail(p), s) \/ (s # <<>> /\ WildMatch(p, Tail(s)))
       ELSE /\ s # <<>>
            /\ Head(p) = "?" \/ Head(p) = Head(s)
            /\ WildMatch(Tail(p), Tail(s))

\* C22: a lookup by a pattern with * or ? returns the first row of the
\* category whose whole name the pattern matches, * standing for any run
\* of characters and ? for exactly one, and None when there is no such
\* row: "Blue?" finds "Blues" and never "Blueberry" or "Blue Dream".
C22_WholeNameMatch ==
  [][ ( /\ last'.kind = "get_strain_by_identifier"
        /\ ~last'.err
        /\ \E k \in DOMAIN Chars(last'.req.identifier) :
             Chars(last'.req.identifier)[k] \in {"*", "?"} ) =>
        LET hits == {i \in RowsIn(last'.req.category) :
                       WildMatch(Lower(Chars(last'.req.identifier)),
                                 Lower(Chars(strains[i].name)))}
        IN last'.res = IF hits = {} THEN None ELSE Rec(strains[MinOf(hits)]) ]_vars

\* ---------------------------------------------------------------------- C23
\* the rows that a proposed product is a duplicate of
DuplicatesOf(req) ==
  {i \in DOMAIN strains :
     /\ Lower(SelectSeq(Chars(strains[i].name), IsAlnum))
          = Lower(SelectSeq(Chars(req.name), IsAlnum))
     /\ strains[i].harvest = req.harvest
     /\ strains[i].package = req.package
     /\ Lower(Chars(strains[i].category)) = Lower(Chars(req.category))
     /\ req.producer # "" => strains[i].producer = req.producer}

\* C23: check_strain_duplicate returns the Unique_ID of the first row whose
\* name without its non-alphanumerics and in lower case, harvest date,
\* package date and category are the proposed ones and, if a producer is
\* given, whose producer is the given one; without a producer a row of any
\* producer counts; it returns None when there is no such row.
C23_DuplicateTuple ==
  [][ (last'.kind = "check_strain_duplicate" /\ ~last'.err) =>
        last'.res = IF DuplicatesOf(last'.req) = {} THEN None
                    ELSE Str(strains[MinOf(DuplicatesOf(last'.req))].id) ]_vars

\* the check of "O-G" without a producer passed over the first row, which
\* has other dates, and reported the second, a row of the producer Fyta
C23_Witness ==
  /\ last.kind = "check_strain_duplicate"
  /\ last.req.name = N_O_G /\ last.req.producer = ""
  /\ strains = <<PendingItem, LegacyItem>>
  /\ last.res = Str(ID_A)

\* ---------------------------------------------------------------------- C24
\* C24: the list get_all_approved_strains returns holds exactly the
\* Approved rows of the sheet (of the category, when one is given), each
\* once, in non-increasing order of Average_Rating, and no row with
\* Total_Ratings 0 stands before a row with ratings.
C24_ApprovedSorted ==
  [][ (last'.kind = "get_all_approved_strains" /\ ~last'.err) =>
        LET out == last'.res.rows
            approved == {i \in RowsIn(last'.req.category) :
                           strains[i].status = "Approved"}
        IN /\ \E f \in [DOMAIN out -> approved] :
                /\ \A i \in approved : \E k \in DOMAIN out : f[k] = i
                /\ \A k, l \in DOMAIN out : f[k] = f[l] => k = l
                /\ \A k \in DOMAIN out : out[k] = strains[f[k]]
           /\ \A k, l \in DOMAIN out :
                k < l => /\ out[k].avg >= out[l].avg
                         /\ ~(out[k].total = 0 /\ out[l].total > 0) ]_vars

\* ---------------------------------------------------------------------- C25
\* a direct call of the store method kind has just returned
Called(kind) == last'.kind = kind /\ nOps' = nOps + 1

\* C25: rename_strain finds the row by its Unique_ID alone, without regard
\* to case: when it returns True the first row with that id has the new
\* name and every other cell of the sheet is as before; when no row has
\* the id it returns False; when it returns False the Strains sheet is
\* unchanged; the Ratings and Submissions sheets are unchanged in all cases.
C25_RenameFrame ==
  [][ Called("rename_strain") =>
        LET hits == {i \in DOMAIN strains :
                       Lower(Chars(strains[i].id)) = Lower(Chars(last'.req.identifier))}
        IN /\ ratings' = ratings /\ submissions' = submissions
           /\ hits = {} => last'.res = Bool(FALSE)
           /\ (hits # {} /\ ~last'.err) => last'.res = Bool(TRUE)
           /\ IF last'.res = Bool(TRUE)
              THEN /\ hits # {}
                   /\ strains' = [strains EXCEPT ![MinOf(hits)].name = last'.req.name]
              ELSE strains' = strains ]_vars

\* the rename of "a1b2c3d4" passed over the first row, which has that
\* name, and renamed the second, which has that id
C25_Witness ==
  /\ last.kind = "rename_strain" /\ last.req.identifier = "a1b2c3d4"
  /\ last.res = Bool(TRUE)
  /\ strains = <<IdNamedItem, [LegacyItem EXCEPT !.name = N_O_G]>>
  /\ Len(submissions) = 2 /\ submissions[2].name = N_Og

\* ---------------------------------------------------------------------- C26
\* the first row a call given an id or a name resolves to (0: none)
ResolvedRow(identifier, pending_only) ==
  LET hits == {i \in DOMAIN strains :
                 /\ \/ Lower(Chars(strains[i].id)) = Lower(Chars(identifier))
                    \/ Lower(Chars(strains[i].name)) = Lower(Chars(identifier))
                 /\ pending_only => strains[i].status = "Pending"}
  IN IF hits = {} THEN 0 ELSE MinOf(hits)

\* C26: no step changes the Unique_ID, the dates, the category or the
\* producer of a row that exists, or removes a row; approve_strain changes
\* at most the Status cell, rename_strain at most the Strain_Name cell and
\* add_rating at most the Average_Rating and Total_Ratings cells, and each
\* of them on no other row than the one it resolved its identifier to.
C26_OwnCellsOnly ==
  [][ /\ Len(strains') >= Len(strains)
      /\ \A i \in DOMAIN strains :
           /\ strains'[i].id = strains[i].id
           /\ strains'[i].harvest = strains[i].harvest
           /\ strains'[i].package = strains[i].package
           /\ strains'[i].category = strains[i].category
           /\ strains'[i].producer = strains[i].producer
      /\ Called("approve_strain") =>
           \A i \in DOMAIN strains :
             strains'[i] # strains[i] =>
               /\ i = ResolvedRow(last'.req.identifier, TRUE)
               /\ strains'[i] = [strains[i] EXCEPT !.status = "Approved"]
      /\ Called("rename_strain") =>
           \A i \in DOMAIN strains :
             strains'[i] # strains[i] =>
               /\ i = MinOf({k \in DOMAIN strains :
                              Lower(Chars(strains[k].id))
                                = Lower(Chars(last'.req.identifier))})
               /\ strains'[i] = [strains[i] EXCEPT !.name = last'.req.name]
      /\ Called("add_rating") =>
           \A i \in DOMAIN strains :
             strains'[i] # strains[i] =>
               /\ i = ResolvedRow(last'.req.identifier, FALSE)
               /\ strains'[i] = [strains[i] EXCEPT !.avg = strains'[i].avg,
                                                   !.total = strains'[i].total] ]_vars

\* ---------------------------------------------------------------------- C27
\* name without regard to case and to the blanks around it
Folded(name) == Lower(Strip(Chars(name)))

\* C27: remove_producer leaves the Strains, Ratings and Submissions sheets
\* as they are; when it returns True the registry has lost one row, the
\* first one whose name is the argument without regard to case, and no
\* other; when it returns False the registry is unchanged; a request that
\* names the header text returns False; and a request (the store not
\* failing) that names a registered producer returns True.
C27_RemoveOneRow ==
  [][ (last'.kind = "remove_producer" /\ nOps' = nOps + 1) =>
        LET hits == {i \in DOMAIN producers :
                       Folded(producers[i]) = Folded(last'.req.name)}
        IN /\ strains' = strains /\ ratings' = ratings /\ submissions' = submissions
           /\ Folded(last'.req.name) = Folded(ProducersHeader)
                => last'.res = Bool(FALSE)
           /\ ( /\ hits # {} /\ ~last'.err
                /\ Folded(last'.req.name) # Folded(ProducersHeader) )
                => last'.res = Bool(TRUE)
           /\ IF last'.res = Bool(TRUE)
              THEN /\ hits # {}
                   /\ producers' = SubSeq(producers, 1, MinOf(hits) - 1)
                                     \o SubSeq(producers, MinOf(hits) + 1, Len(producers))
              ELSE producers' = producers ]_vars

\* "fyta" was removed from a registry of two rows, the second row is left,
\* and the product of the producer Fyta is still on the Strains sheet
C27_Witness ==
  /\ last.kind = "remove_producer" /\ last.req.name = "fyta"
  /\ last.res = Bool(TRUE)
  /\ producers = <<"Q-Farms">>
  /\ strains[1] = LegacyItem /\ strains[1].producer = P_Fyta

\* ---------------------------------------------------------------------- C28
\* no two rows of the registry have the same name without regard to case
\* and surrounding blanks
NoTwoAlike ==
  \A i, j \in DOMAIN producers :
    Folded(producers[i]) = Folded(producers[j]) => i = j

\* C28: producer names stay unique without regard to case: in every state
\* no two rows of the registry have the same folded name, and add_producer
\* returns False and appends nothing when a row has the name in that
\* sense (and appends the stripped name when none has).
C28_ProducersUnique ==
  /\ []NoTwoAlike
  /\ [][ (last'.kind = "add_producer" /\ nOps' = nOps + 1) =>
          IF \E i \in DOMAIN producers : Folded(producers[i]) = Folded(last'.req.name)
          THEN last'.res = Bool(FALSE) /\ producers' = producers
          ELSE ~last'.err =>
                 /\ last'.res = Bool(TRUE)
                 /\ producers' = Append(producers,
                                        Text(Strip(Chars(last'.req.name)))) ]_vars

\* " Fyta " was refused while "Fyta" was registered, after a removal and
\* a new registration had gone through
C28_Witness ==
  /\ last.kind = "add_producer" /\ last.req.name = " Fyta "
  /\ last.res = Bool(FALSE) /\ ~last.err
  /\ producers = <<"Q-Farms", "fyta">>

\* ---------------------------------------------------------------------- C29
\* C29: the Rating_ID of the k-th row of the Ratings sheet is k: the ids
\* are 1..n in the order the rows were appended, each used once.
C29_RatingIdsInOrder ==
  \A k \in DOMAIN ratings : ratings[k].rid = k

\* two callers' add_rating calls, taken through the lock one after the
\* other, appended the rows 2 and 3 behind the row the sheet started with
C29_Witness ==
  /\ Len(ratings) = 3
  /\ ratings[2].rid = 2 /\ ratings[3].rid = 3
  /\ ratings[2].item # ratings[3].item \/ ratings[2].user # ratings[3].user

\* ---------------------------------------------------------------------- C30
\* C30: a user id written by _format_user_id_for_sheets is read back by
\* _extract_user_id_from_sheets as the same integer; a cell holding the
\* plain decimal text of an integer is read as that integer; a cell whose
\* text behind the leading markers has no digit, or a character that is
\* no digit, sign, blank or underscore, is read as 0; and no read raises.
C30_UserIdRoundTrip ==
  [][ /\ last'.kind = "format_extract" =>
           last'.res = IntRes(last'.req.user) /\ ~last'.err
      /\ last'.kind = "extract_user_id" =>
           LET cell == last'.req.cell
               marks == CHOOSE k \in 0..Len(cell) :
                          /\ \A i \in 1..k : cell[i] = "'"
                          /\ k < Len(cell) => cell[k + 1] # "'"
               text == SubSeq(cell, marks + 1, Len(cell))
           IN /\ ~last'.err
              /\ \A n \in 0..MaxUserId : cell = DecStr(n) => last'.res = IntRes(n)
              /\ ( \/ \A i \in DOMAIN text : text[i] \notin Digits
                   \/ \E i \in DOMAIN text :
                        text[i] \notin Digits \cup {"-", "+", " ", "_"} )
                   => last'.res = IntRes(0) ]_vars

\* the id 42 came back from its cell text '42
C30_Witness ==
  /\ last.kind = "format_extract" /\ last.req.user = 42
  /\ format_user_id_for_sheets(42) = <<"'", "4", "2">>
  /\ last.res = IntRes(42)

\* ---------------------------------------------------------------------- C33
\* C33: a store operation that reports failure leaves the sheets as they
\* were: when add_rating returns False the Ratings and Strains sheets are
\* unchanged, and when add_strain_submission returns None the Strains and
\* Submissions sheets are unchanged, also when the store raises between
\* the operation's writes.
C33_FailureLeavesTables ==
  [][ \A t \in Tasks :
        /\ (Ran(t, "add_rating") /\ last'.r = "failed") =>
             ratings' = ratings /\ strains' = strains
        /\ (Ran(t, "add_strain_submission") /\ last'.r = "failed") =>
             strains' = strains /\ submissions' = submissions ]_vars

\* ---------------------------------------------------------------------- C34
\* C34: when get_strain_by_identifier has returned a row for an identifier
\* and the add_rating or approve_strain call that follows with the same
\* identifier returns True, every row that call changed is the row the
\* lookup returned.
C34_WritesResolvedItem ==
  [][ ( /\ last.kind = "get_strain_by_identifier"
        /\ ~last.err /\ last.res # None
        /\ last.req.category = NoCategory
        /\ Called("add_rating") \/ Called("approve_strain")
        /\ last'.req.identifier = last.req.identifier
        /\ last'.res = Bool(TRUE) ) =>
        \A i \in DOMAIN strains :
          strains'[i] # strains[i] => Rec(strains[i]) = last.res ]_vars

\* ---------------------------------------------------------------------- C36
\* no two rows have the same normalized name with the same category,
\* producer, harvest date and package date
NamesUnique(rows) ==
  \A i, j \in DOMAIN rows : TupleOf(rows[i]) = TupleOf(rows[j]) => i = j

\* C36: a rename_strain call on a sheet whose rows have distinct
\* (normalized name, dates, category, producer) tuples leaves them distinct.
C36_RenameKeepsUnique ==
  [][ (Called("rename_strain") /\ NamesUnique(strains)) => NamesUnique(strains') ]_vars

\* ---------------------------------------------------------------------- C35
\* C35: every Ratings row names the Unique_ID of a Strains row that is
\* Approved, and get_recent_ratings_for_status(limit) returns
\* min(limit, number of Ratings rows) entries: its Approved filter drops
\* no row.
C35_FeedDropsNothing ==
  /\ \A k \in DOMAIN ratings :
       \E i \in DOMAIN strains :
         strains[i].id = ratings[k].item /\ strains[i].status = "Approved"
  /\ \A limit \in {1, TopLimit} :
       Len(get_recent_ratings_for_status(ratings, strains, limit))
         = IF Len(ratings) < limit THEN Len(ratings) ELSE limit

\* ---------------------------------------------------------------------- C40
\* C40: a get_strain_by_identifier call through cached_operation that
\* returns None leaves the cache as it was, no cache entry ever holds
\* None, and a call that finds no entry for its key returns what the
\* lookup gives on the sheet as it is now: the Item submitted since an
\* earlier call with the same key returned None.
C40_NoneNotCached ==
  [][ (last'.kind = "get_strain_by_identifier" /\ nOps' = nOps + 1) =>
        LET key == cache_key(last'.req.identifier, last'.req.category)
            i == Resolved(last'.req.identifier, last'.req.category)
        IN /\ last'.res = None => cache' = cache
           /\ \A e \in cache' : e.val # None
           /\ ((\A e \in cache : entry_key(e) # key) /\ ~last'.err) =>
                last'.res = IF i = 0 THEN None ELSE Rec(strains[i]) ]_vars

\* on a sheet that was empty, after three calls and with no time gone by,
\* the lookup of "og" went to the store and found the submitted Item
C40_Witness ==
  /\ last.kind = "get_strain_by_identifier" /\ last.req.identifier = "og"
  /\ last.r = "miss" /\ last.res # None
  /\ Len(strains) = 1 /\ Len(submissions) = 1 /\ submissions[1].sid = 1
  /\ strains[1].status = "Pending"
  /\ nOps = 3 /\ now = 0

\* ---------------------------------------------------------------------- C32
\* the times in ts that are less than window before t
Within(ts, t, window) == SelectSeq(ts, LAMBDA c : t - c < window)

\* any limit + 1 times of ts, taken in order, span at least window: no
\* interval [s, s + window) holds more than limit of them
AtMostPerWindow(ts, limit, window) ==
  \A i, j \in DOMAIN ts : j >= i + limit => ts[j] - ts[i] >= window

\* C32: with one limit and one window, no interval of window seconds holds
\* more than limit calls of one user that returned True; a user's list
\* never holds more than limit timestamps; a call returns True exactly
\* when fewer than limit of that user's own earlier True calls lie within
\* the window, whatever other users did; a call that returns False adds no
\* timestamp; and a call leaves every other user's list alone.
C32_SlidingWindow ==
  /\ [](\A u \in USERS :
          /\ AtMostPerWindow(passed[u], config.limit, Seconds(config.window))
          /\ Len(user_requests[u]) <= config.limit)
  /\ [][ (last'.kind = "check_user_limit" /\ nOps' = nOps + 1) =>
           LET u == last'.req.user
               own == Within(passed[u], now, Seconds(config.window))
           IN /\ last'.res = Bool(Len(own) < config.limit)
              /\ last'.res = Bool(FALSE) =>
                   /\ user_requests'[u] = own
                   /\ passed' = passed
              /\ last'.res = Bool(TRUE) =>
                   user_requests'[u] = Append(own, now)
              /\ \A v \in USERS \ {u} :
                   user_requests'[v] = user_requests[v] ]_vars

\* user 1 is refused 30 s after the first of their two calls that were
\* let through, and user 2 was let through in the meantime
C32_Witness ==
  /\ config.limit = 2
  /\ last.kind = "check_user_limit" /\ last.req.user = 1
  /\ last.res = Bool(FALSE)
  /\ Len(passed[1]) = 2 /\ Len(user_requests[1]) = 2
  /\ Len(passed[2]) = 1
  /\ now = passed[1][1] + Seconds(30)
  /\ nOps = 4

\* ---------------------------------------------------------------------- C38
\* C38: for every user and every configured RATE_LIMIT_PER_USER and
\* RATE_LIMIT_WINDOW, no interval of RATE_LIMIT_WINDOW seconds holds more
\* than RATE_LIMIT_PER_USER submit and rate requests of that user that
\* passed check_user_limit.
C38_QuotaAcrossCommands ==
  \A u \in USERS :
    AtMostPerWindow(passed[u], config.limit, Seconds(config.window))

\* ---------------------------------------------------------------------- C37
\* C37: two notification messages are never posted less than
\* notification_cooldown apart.
C37_OnePerCooldown ==
  \A i, j \in DOMAIN channel :
    i < j => channel[j].at - channel[i].at >= Seconds(notification_cooldown)

\* ---------------------------------------------------------------------- C31
\* a handler in its post-then-retract delay
Sleeping(t) == pc[t] = "sleep"

WaitsFor(t, lock) == \E i \in DOMAIN Waiting(lock) : Waiting(lock)[i] = t

\* C39: a handler that holds the store lock waits for no lock and holds
\* the rate-limiter lock not; a handler that holds the rate-limiter lock
\* waits for no lock and holds no other; a handler that waits for the
\* status-update lock holds no lock: the locks are taken in the one order
\* status-update lock, then store lock.  And every handler that waits for
\* a lock gets it, and every handler started returns.
C39_NoCyclicWait ==
  /\ [](\A t \in OrderTasks :
          /\ Holder("store") = t =>
               /\ \A l \in {"store", "status", "limiter"} : ~WaitsFor(t, l)
               /\ Holder("limiter") # t
          /\ Holder("limiter") = t =>
               /\ \A l \in {"store", "status", "limiter"} : ~WaitsFor(t, l)
               /\ Holder("status") # t
          /\ WaitsFor(t, "status") =>
               \A l \in {"store", "status", "limiter"} : Holder(l) # t)
  /\ \A t \in OrderTasks : (pc[t] = "waiting") ~> (pc[t] = "inbody")
  /\ \A t \in OrderTasks : (pc[t] # "idle") ~> (pc[t] = "idle")

\* handler 1 holds the status-update lock and waits for the store lock,
\* which handler 2 holds, and handler 2 has update_status_messages ahead
C39_Witness ==
  /\ Holder("status") = 1 /\ WaitsFor(1, "store")
  /\ Holder("store") = 2
  /\ flow[2].kind = "approve" /\ flow[2].ip = 4
====
